---------------------------- MODULE Spec2Model ----------------------------
(***************************************************************************)
(* Model of the Obsidian exporter of screen-analyzer                       *)
(* (src-tauri/src/obsidian/mod.rs): the export_day orchestration, the      *)
(* artifact paths and writes, and the week aggregation it drives.          *)
(*                                                                         *)
(* Strings that the code inspects character by character (vault_path,     *)
(* root_folder) are sequences of one-character strings.  A date argument   *)
(* "YYYY-MM-DD" is the triple <<YYYY, MM, DD>> of its three number fields; *)
(* whether it is a calendar date is decided by parse_date, as chrono does. *)
(* A path is a record [root, kind, key]: the root directory, the artifact  *)
(* family (the fixed directory and file-name pattern) and the numbers that *)
(* are formatted into the file name.                                       *)
(***************************************************************************)
EXTENDS Integers, Sequences, FiniteSets, TLC

(***************************************************************************)
(* Bounds of the model.                                                    *)
(***************************************************************************)
MaxRuns == 2        \* invocations of export_day per exporter in Spec
MaxFaults == 2      \* I/O failures the environment injects in one behaviour

Procs == {1, 2}

(***************************************************************************)
(* Small helpers.                                                          *)
(***************************************************************************)
Range(s) == {s[i] : i \in DOMAIN s}

Max2(a, b) == IF a >= b THEN a ELSE b

Min2(a, b) == IF a <= b THEN a ELSE b

\* i64 division: the quotient truncated toward zero
Div(a, b) ==
    IF (a >= 0) = (b > 0)
    THEN (IF a >= 0 THEN a ELSE 0 - a) \div (IF b > 0 THEN b ELSE 0 - b)
    ELSE 0 - ((IF a >= 0 THEN a ELSE 0 - a) \div (IF b > 0 THEN b ELSE 0 - b))

RECURSIVE SelectIdx(_, _)
\* the indices i of s, ascending, with i \in keep
SelectIdx(n, keep) ==
    IF n = 0 THEN <<>>
    ELSE IF n \in keep THEN Append(SelectIdx(n - 1, keep), n)
         ELSE SelectIdx(n - 1, keep)

(***************************************************************************)
(* str::trim on a sequence of characters.                                  *)
(***************************************************************************)
IsSpace(c) == c = " "

RECURSIVE TrimStart(_)
TrimStart(s) ==
    IF s = <<>> THEN <<>>
    ELSE IF IsSpace(Head(s)) THEN TrimStart(Tail(s)) ELSE s

RECURSIVE TrimEnd(_)
TrimEnd(s) ==
    IF s = <<>> THEN <<>>
    ELSE IF IsSpace(s[Len(s)]) THEN TrimEnd(SubSeq(s, 1, Len(s) - 1)) ELSE s

Trim(s) == TrimEnd(TrimStart(s))

(***************************************************************************)
(* Calendar arithmetic of chrono::NaiveDate (proleptic Gregorian).         *)
(***************************************************************************)
IsLeap(y) == (y % 4 = 0 /\ y % 100 # 0) \/ y % 400 = 0

DaysInMonth(y, m) ==
    IF m = 2 THEN (IF IsLeap(y) THEN 29 ELSE 28)
    ELSE IF m \in {4, 6, 9, 11} THEN 30 ELSE 31

\* a mutant of parse_date_ok: any day up to 31 passes, whatever the month
parse_date_ok_any_month(date) ==
    /\ date[2] \in 1..12
    /\ date[3] >= 1
    /\ date[3] <= 31

\* NaiveDate::parse_from_str(date, "%Y-%m-%d") succeeds
parse_date_ok(date) ==
    /\ date[2] \in 1..12
    /\ date[3] >= 1
    /\ date[3] <= DaysInMonth(date[1], date[2])

\* days since 1970-01-01 of a calendar date
DaysFromCivil(date) ==
    LET y   == IF date[2] <= 2 THEN date[1] - 1 ELSE date[1]
        era == y \div 400
        yoe == y - era * 400
        mp  == IF date[2] > 2 THEN date[2] - 3 ELSE date[2] + 9
        doy == (153 * mp + 2) \div 5 + date[3] - 1
        doe == yoe * 365 + yoe \div 4 - yoe \div 100 + doy
    IN era * 146097 + doe - 719468

\* the calendar date of a day number
CivilFromDays(z0) ==
    LET z   == z0 + 719468
        era == z \div 146097
        doe == z - era * 146097
        yoe == (doe - doe \div 1460 + doe \div 36524 - doe \div 146096) \div 365
        doy == doe - (365 * yoe + yoe \div 4 - yoe \div 100)
        mp  == (5 * doy + 2) \div 153
        d   == doy - (153 * mp + 2) \div 5 + 1
        m   == IF mp < 10 THEN mp + 3 ELSE mp - 9
        y   == yoe + era * 400 + (IF m <= 2 THEN 1 ELSE 0)
    IN <<y, m, d>>

\* 0 = Monday .. 6 = Sunday
WeekdayFromMonday(date) == (DaysFromCivil(date) + 3) % 7

\* NaiveDate::from_isoywd(iso_week, Weekday::Mon) of the date's ISO week, as a day number
WeekStartDays(date) == DaysFromCivil(date) - WeekdayFromMonday(date)

\* NaiveDate::from_isoywd(iso_week, Weekday::Sun)
WeekEndDays(date) == WeekStartDays(date) + 6

\* day.iso_week(): <<iso_week.year(), iso_week.week()>>
IsoWeek(date) ==
    LET thu == CivilFromDays(WeekStartDays(date) + 3)
        jan1 == DaysFromCivil(<<thu[1], 1, 1>>)
    IN <<thu[1], (WeekStartDays(date) + 3 - jan1) \div 7 + 1>>


(***************************************************************************)
(* Option<T>: None is <<>>, Some(x) is <<x>>.                              *)
(***************************************************************************)
None == <<>>

Some(x) == <<x>>

(***************************************************************************)
(* ObsidianExportConfig values the exporters are built with.               *)
(***************************************************************************)
CfgCopy ==
    [vault_path |-> <<"v">>, root_folder |-> <<>>, include_screenshots |-> TRUE,
     export_mode |-> "copy", weekly_focus_weight |-> 70, weekly_target_minutes |-> 300]

CfgLink ==
    [vault_path |-> <<" ", "v", " ">>, root_folder |-> <<"r">>, include_screenshots |-> TRUE,
     export_mode |-> "link", weekly_focus_weight |-> 150, weekly_target_minutes |-> 0]

CfgPlain ==
    [vault_path |-> <<"w">>, root_folder |-> <<" ">>, include_screenshots |-> FALSE,
     export_mode |-> "copy", weekly_focus_weight |-> 0, weekly_target_minutes |-> 60]

CfgBlank == [CfgCopy EXCEPT !.vault_path = <<" ", " ">>]

CfgGone == [CfgCopy EXCEPT !.vault_path = <<"x">>]

Configs == {CfgCopy, CfgLink, CfgPlain, CfgBlank, CfgGone}

\* the vault directories that exist on disk (vault_root.exists())
ExistingVaults == {<<"v">>, <<"w">>}

(***************************************************************************)
(* Dates handed to export_day.                                             *)
(***************************************************************************)
DSun == <<2024, 12, 29>>    \* Sunday,    ISO week 2024-W52

DMon == <<2024, 12, 30>>    \* Monday,    ISO week 2025-W01

DWed == <<2025, 1, 1>>      \* Wednesday, ISO week 2025-W01

DBad == <<2024, 2, 30>>     \* "2024-02-30": not a calendar date

Dates == {DSun, DMon, DWed, DBad}

(***************************************************************************)
(* Storage contents (crate::storage::Database), read-only here.            *)
(***************************************************************************)
\* a DateTime<Utc> is its number of seconds since 1970-01-01T00:00:00Z
At(date, hour, minute, second) ==
    DaysFromCivil(date) * 86400 + hour * 3600 + minute * 60 + second

\* dt.format("%Y-%m-%d")
DateOf(dt) == CivilFromDays(dt \div 86400)

\* dt.format("%H%M"), as the number HHMM
HourMinute(dt) == ((dt % 86400) \div 3600) * 100 + (dt % 3600) \div 60

\* Duration::num_minutes(): whole minutes, truncated toward zero
NumMinutes(seconds) ==
    IF seconds >= 0 THEN seconds \div 60 ELSE 0 - ((0 - seconds) \div 60)

SessA == [id |-> Some(1), start_time |-> At(DMon, 9, 0, 0), end_time |-> At(DMon, 9, 30, 59)]

SessB == [id |-> Some(2), start_time |-> At(DMon, 10, 0, 0), end_time |-> At(DMon, 10, 45, 0)]

SessC == [id |-> None, start_time |-> At(DWed, 23, 50, 0), end_time |-> At(DWed, 24, 10, 0)]

SessD == [id |-> Some(3), start_time |-> At(DSun, 8, 5, 0), end_time |-> At(DSun, 8, 0, 0)]

Card(category, start, end) == [category |-> category, start_time |-> start, end_time |-> end]

\* the stored worlds: sessions per date, cards and frames per session id, the
\* frame files present on disk, the per-day rollups and the stored day summaries
WorldOne ==
    [sessions   |-> [d \in Dates |->
                        IF d = DMon THEN <<SessA, SessB>>
                        ELSE IF d = DWed THEN <<SessC>>
                        ELSE <<>>],
     cards      |-> [i \in 0..3 |->
                        IF i = 1 THEN <<Card("Work", Some(0), Some(1200)),
                                        Card("work", Some(1200), Some(1500)),
                                        Card("Meeting", Some(1500), Some(1800))>>
                        ELSE IF i = 2 THEN <<Card("idle", Some(0), None)>>
                        ELSE <<>>],
     frames     |-> [i \in 0..3 |->
                        IF i = 1 THEN <<"a.jpg", "b.jpg", "c.jpg">>
                        ELSE IF i = 2 THEN <<"d.jpg">>
                        ELSE IF i = 0 THEN <<"e.jpg", "b.jpg", "e.jpg">>
                        ELSE <<>>],
     images     |-> {"b.jpg", "c.jpg", "d.jpg", "e.jpg"},
     activities |-> <<[date |-> DWed, session_count |-> 1, total_duration_minutes |-> 20,
                       main_categories |-> <<"work">>],
                      [date |-> DMon, session_count |-> 2, total_duration_minutes |-> 75,
                       main_categories |-> <<"work", "idle">>]>>,
     summaries  |-> [d \in {DMon} |-> <<"m", "\n", "o">>]]

WorldTwo ==
    [sessions   |-> [d \in Dates |->
                        IF d = DSun THEN <<SessD, SessA>>
                        ELSE IF d = DBad THEN <<SessB>>
                        ELSE <<>>],
     cards      |-> [i \in 0..3 |->
                        IF i = 3 THEN <<Card("LEARNING", Some(60), Some(0))>>
                        ELSE <<>>],
     frames     |-> [i \in 0..3 |->
                        IF i = 1 THEN <<"a.jpg", "b.jpg", "c.jpg">>
                        ELSE IF i = 3 THEN <<"d.jpg", "e.jpg">>
                        ELSE <<>>],
     images     |-> {"a.jpg", "b.jpg"},
     activities |-> <<>>,
     summaries  |-> [d \in {DSun, DWed} |-> <<"r", "e", "s", "t">>]]

Worlds == {WorldOne, WorldTwo}

\* session.id.unwrap_or(0)
IdOrZero(session) == IF session.id = None THEN 0 ELSE session.id[1]

(***************************************************************************)
(* Paths.                                                                  *)
(***************************************************************************)
\* root: the vault, or the vault joined with the trimmed root folder
RootOf(cfg) ==
    IF Trim(cfg.root_folder) = <<>>
    THEN <<Trim(cfg.vault_path)>>
    ELSE <<Trim(cfg.vault_path), Trim(cfg.root_folder)>>

PathOf(root, kind, key) == [root |-> root, kind |-> kind, key |-> key]

NoPath == PathOf(<<>>, "none", <<>>)

DailyDir(root) == PathOf(root, "Daily/", <<>>)

SessionsDir(root, date) == PathOf(root, "Sessions/<date>/", date)

AssetsDir(root, date) == PathOf(root, "Assets/<date>/", date)

IndexDir(root) == PathOf(root, "Index/", <<>>)

WeeklyDir(root) == PathOf(root, "Weekly/", <<>>)

\* a mutant of DailyNotePath: the note is named after the month
DailyNotePathByMonth(root, date) == PathOf(root, "Daily/<date>.md", <<date[1], date[2]>>)

\* Daily/<date>.md
DailyNotePath(root, date) == PathOf(root, "Daily/<date>.md", date)

\* <start date>_<HHMM>-<HHMM>_session-<id>.md, as the numbers formatted into it
SessionFileName(session) ==
    DateOf(session.start_time)
        \o <<HourMinute(session.start_time), HourMinute(session.end_time), IdOrZero(session)>>

\* <sessions_dir>/<file name>
SessionPath(sessions_dir, session) ==
    PathOf(sessions_dir.root, "Sessions/<date>/<start>_<hm>-<hm>_session-<id>.md",
           sessions_dir.key \o SessionFileName(session))

\* the link text export_session returns: Sessions/<start date>/<file name>
SessionLink(session) ==
    [dir |-> DateOf(session.start_time), file |-> SessionFileName(session)]

\* <assets_dir>/session-<id>-<index>.jpg
AssetPath(assets_dir, session_id, index) ==
    PathOf(assets_dir.root, "Assets/<date>/session-<id>-<index>.jpg",
           assets_dir.key \o <<session_id, index>>)

\* Index/sessions-<YYYY>-<MM>.md
MonthIndexPath(root, date) == PathOf(root, "Index/sessions-<month>.md", <<date[1], date[2]>>)

\* Index/weeks-<week_label>.md
WeekIndexPath(root, week_label) == PathOf(root, "Index/weeks-<week>.md", week_label)

\* Weekly/<week_label>.md
WeeklyNotePath(root, week_label) == PathOf(root, "Weekly/<week>.md", week_label)

\* Index/overview.md
OverviewPath(root) == PathOf(root, "Index/overview.md", <<>>)

(***************************************************************************)
(* The file system: fs maps a file path to its content, a sequence of      *)
(* written blocks; dirs is the set of directories created so far.          *)
(***************************************************************************)
\* a mutant of WriteFile: append to what is there
WriteFileAppend(files, path, block) ==
    IF path \in DOMAIN files
    THEN (path :> (files[path] \o <<block>>)) @@ files
    ELSE (path :> <<block>>) @@ files

\* fs::write / fs::copy succeeding: create or truncate, then write the block
WriteFile(files, path, block) == (path :> <<block>>) @@ files

\* fs::write failing after the file was opened: it is left truncated
TruncateFile(files, path) == (path :> <<>>) @@ files

\* the outcomes of one fs::write
WriteOutcomes == {"ok", "err_open", "err_write"}

AfterWrite(files, path, block, outcome) ==
    IF outcome = "ok" THEN WriteFile(files, path, block)
    ELSE IF outcome = "err_write" THEN TruncateFile(files, path)
    ELSE files

(***************************************************************************)
(* Session metrics.                                                        *)
(***************************************************************************)
\* str::to_lowercase on the category labels that occur in storage
to_lowercase(raw) ==
    CASE raw \in {"Work", "WORK", "wOrK"} -> "work"
      [] raw \in {"Meeting", "MEETING"} -> "meeting"
      [] raw \in {"Communication", "COMMUNICATION"} -> "communication"
      [] raw \in {"Learning", "LEARNING"} -> "learning"
      [] raw \in {"Research", "RESEARCH"} -> "research"
      [] raw \in {"Personal", "PERSONAL"} -> "personal"
      [] raw \in {"Idle", "IDLE"} -> "idle"
      [] raw \in {"Break", "BREAK"} -> "break"
      [] raw \in {"Gaming", "GAMING"} -> "gaming"
      [] OTHER -> raw

RECURSIVE count_context_switches_exact(_)
\* a mutant of count_context_switches: the categories are compared as written
count_context_switches_exact(cards) ==
    IF Len(cards) <= 1 THEN 0
    ELSE count_context_switches_exact(SubSeq(cards, 1, Len(cards) - 1))
         + (IF cards[Len(cards) - 1].category # cards[Len(cards)].category
            THEN 1 ELSE 0)

RECURSIVE count_context_switches(_)
\* the number of cards whose lower-cased category differs from the card before
count_context_switches(cards) ==
    IF Len(cards) <= 1 THEN 0
    ELSE count_context_switches(SubSeq(cards, 1, Len(cards) - 1))
         + (IF to_lowercase(cards[Len(cards) - 1].category)
                  # to_lowercase(cards[Len(cards)].category)
            THEN 1 ELSE 0)

build_session_metrics(cards, duration_minutes) ==
    LET switches == count_context_switches(cards)
    IN [timeline_cards      |-> Len(cards),
        context_switches    |-> switches,
        avg_segment_minutes |-> IF Len(cards) = 0 THEN 0
                                ELSE Max2(Div(duration_minutes, Len(cards)), 0),
        fragmentation_level |-> IF switches <= 1 THEN "low"
                                ELSE IF switches <= 3 THEN "medium" ELSE "high"]

\* render_metrics: the "no metrics" marker, or the four metric lines
render_metrics(metrics) ==
    IF metrics.timeline_cards = 0 THEN [marker |-> "no_metrics"]
    ELSE [marker |-> "metrics", cards |-> metrics.timeline_cards,
          switches |-> metrics.context_switches, avg |-> metrics.avg_segment_minutes,
          level |-> metrics.fragmentation_level]

(***************************************************************************)
(* Screenshots.                                                            *)
(***************************************************************************)
\* a mutant of pick_screenshots: the last frame is kept even with the path of the first
pick_screenshots_no_dedup(frames) ==
    IF Len(frames) = 0 THEN <<>>
    ELSE IF Len(frames) = 1 THEN <<frames[1]>>
    ELSE <<frames[1], frames[Len(frames)]>>

\* pick_screenshots: the first frame and, with another file_path, the last
pick_screenshots(frames) ==
    IF Len(frames) = 0 THEN <<>>
    ELSE IF Len(frames) = 1 THEN <<frames[1]>>
    ELSE IF frames[1] # frames[Len(frames)] THEN <<frames[1], frames[Len(frames)]>>
    ELSE <<frames[1]>>

\* a mutant of prepare_screenshot: link mode does not look for the source file
prepare_screenshot_unchecked(cfg, images, frame, index, copied) ==
    IF cfg.export_mode = "copy"
    THEN IF frame \notin images THEN [kind |-> "failed", frame |-> frame, index |-> index]
         ELSE IF copied = "ok" THEN [kind |-> "copied", frame |-> frame, index |-> index]
         ELSE [kind |-> "failed", frame |-> frame, index |-> index]
    ELSE [kind |-> "linked", frame |-> frame, index |-> index]

\* prepare_screenshot: the image link of one frame, or its error
prepare_screenshot(cfg, images, frame, index, copied) ==
    IF frame \notin images THEN [kind |-> "failed", frame |-> frame, index |-> index]
    ELSE IF cfg.export_mode = "copy"
         THEN IF copied = "ok" THEN [kind |-> "copied", frame |-> frame, index |-> index]
              ELSE [kind |-> "failed", frame |-> frame, index |-> index]
         ELSE [kind |-> "linked", frame |-> frame, index |-> index]

\* prepare_screenshot calls fs::copy for this frame
CopiesFrame(cfg, images, frame) == frame \in images /\ cfg.export_mode = "copy"

ImageBlock(frame) == [type |-> "image", source |-> frame]

RECURSIVE CopyTargets(_, _, _, _, _, _, _)
\* the file system after the fs::copy calls of targets[1..n], in order
CopyTargets(files, cfg, images, assets_dir, session_id, targets, copied) ==
    IF targets = <<>> THEN files
    ELSE LET n == Len(targets)
             before == CopyTargets(files, cfg, images, assets_dir, session_id,
                                   SubSeq(targets, 1, n - 1), copied)
         IN IF CopiesFrame(cfg, images, targets[n])
            THEN AfterWrite(before, AssetPath(assets_dir, session_id, n - 1),
                            ImageBlock(targets[n]), copied[n])
            ELSE before

\* a mutant of render_screenshots: the first failing screenshot ends the loop
render_screenshots_abort(cfg, images, targets, copied) ==
    IF targets = <<>> THEN [marker |-> "no_screenshots", lines |-> <<>>]
    ELSE LET all == [i \in 1..Len(targets) |->
                        prepare_screenshot(cfg, images, targets[i], i - 1, copied[i])]
             bad == {i \in 1..Len(targets) : all[i].kind = "failed"}
             upto == IF bad = {} THEN Len(targets)
                     ELSE CHOOSE i \in bad : \A j \in bad : i <= j
         IN [marker |-> "lines", lines |-> SubSeq(all, 1, upto)]

\* render_screenshots: one line per selected frame, a link or a failure line
render_screenshots(cfg, images, targets, copied) ==
    IF targets = <<>> THEN [marker |-> "no_screenshots", lines |-> <<>>]
    ELSE [marker |-> "lines",
          lines |-> [i \in 1..Len(targets) |->
                        prepare_screenshot(cfg, images, targets[i], i - 1, copied[i])]]

\* the screenshots section when include_screenshots is off
NoScreenshotsSection == [marker |-> "off", lines |-> <<>>]

(***************************************************************************)
(* Rendered documents, as the data rendered into them.                     *)
(***************************************************************************)
render_session_note(session, cards, shots) ==
    LET duration == Max2(NumMinutes(session.end_time - session.start_time), 0)
        metrics  == build_session_metrics(cards, duration)
    IN [type |-> "screen-analyzer-session",
        date |-> DateOf(session.start_time),
        session_id |-> IdOrZero(session),
        start |-> HourMinute(session.start_time),
        end |-> HourMinute(session.end_time),
        duration_minutes |-> duration,
        timeline |-> cards,
        metrics |-> render_metrics(metrics),
        context_switches |-> metrics.context_switches,
        fragmentation_level |-> metrics.fragmentation_level,
        screenshots |-> shots]

\* a mutant of render_daily_note: an empty list of links is rendered as it is
render_daily_note_no_marker(summary, session_links) ==
    [type |-> "screen-analyzer-daily",
     date |-> summary.date,
     session_count |-> Len(session_links),
     summary |-> summary.summary_text,
     session_list |-> [marker |-> "links", lines |-> session_links]]

\* render_daily_note with the default template
render_daily_note(summary, session_links) ==
    [type |-> "screen-analyzer-daily",
     date |-> summary.date,
     session_count |-> Len(session_links),
     summary |-> summary.summary_text,
     session_list |-> IF session_links = <<>>
                      THEN [marker |-> "no_sessions", lines |-> <<>>]
                      ELSE [marker |-> "links", lines |-> session_links]]

(***************************************************************************)
(* Week focus metrics (WeekFocusMetrics) and scores.                       *)
(***************************************************************************)
\* a mutant of normalize_timeline_category: the label is matched as written
normalize_timeline_category_exact(raw) ==
    CASE raw = "work" -> "Work"
      [] raw \in {"communication", "meeting"} -> "Communication"
      [] raw \in {"learning", "research"} -> "Learning"
      [] raw = "personal" -> "Personal"
      [] raw \in {"idle", "break"} -> "Idle"
      [] OTHER -> "Other"

normalize_timeline_category(raw) ==
    LET lower == to_lowercase(raw)
    IN CASE lower = "work" -> "Work"
         [] lower \in {"communication", "meeting"} -> "Communication"
         [] lower \in {"learning", "research"} -> "Learning"
         [] lower = "personal" -> "Personal"
         [] lower \in {"idle", "break"} -> "Idle"
         [] OTHER -> "Other"

\* parse_card_minutes: a timestamp that does not parse is None
parse_card_minutes(card) ==
    IF card.start_time # None /\ card.end_time # None
    THEN Max2(NumMinutes(card.end_time[1] - card.start_time[1]), 0)
    ELSE 0

\* WeekFocusMetrics::default()
DefaultFocusMetrics ==
    [total_minutes |-> 0, work_minutes |-> 0, learning_minutes |-> 0,
     communication_minutes |-> 0, personal_minutes |-> 0, idle_minutes |-> 0,
     other_minutes |-> 0]

\* a mutant of add_card: a card of an unknown category counts in the total only
add_card_other_lost(metrics, card) ==
    LET minutes == parse_card_minutes(card)
        bucket  == normalize_timeline_category(card.category)
        total   == [metrics EXCEPT !.total_minutes = @ + minutes]
    IN IF minutes <= 0 THEN metrics
       ELSE CASE bucket = "Work" -> [total EXCEPT !.work_minutes = @ + minutes]
              [] bucket = "Learning" -> [total EXCEPT !.learning_minutes = @ + minutes]
              [] bucket = "Communication" ->
                     [total EXCEPT !.communication_minutes = @ + minutes]
              [] bucket = "Personal" -> [total EXCEPT !.personal_minutes = @ + minutes]
              [] bucket = "Idle" -> [total EXCEPT !.idle_minutes = @ + minutes]
              [] OTHER -> total

add_card(metrics, card) ==
    LET minutes == parse_card_minutes(card)
        bucket  == normalize_timeline_category(card.category)
        total   == [metrics EXCEPT !.total_minutes = @ + minutes]
    IN IF minutes <= 0 THEN metrics
       ELSE CASE bucket = "Work" -> [total EXCEPT !.work_minutes = @ + minutes]
              [] bucket = "Learning" -> [total EXCEPT !.learning_minutes = @ + minutes]
              [] bucket = "Communication" ->
                     [total EXCEPT !.communication_minutes = @ + minutes]
              [] bucket = "Personal" -> [total EXCEPT !.personal_minutes = @ + minutes]
              [] bucket = "Idle" -> [total EXCEPT !.idle_minutes = @ + minutes]
              [] OTHER -> [total EXCEPT !.other_minutes = @ + minutes]

RECURSIVE add_cards(_, _)
add_cards(metrics, cards) ==
    IF cards = <<>> THEN metrics
    ELSE add_cards(add_card(metrics, Head(cards)), Tail(cards))

focus_minutes(metrics) == metrics.work_minutes + metrics.learning_minutes

distraction_minutes(metrics) ==
    metrics.personal_minutes + metrics.idle_minutes + metrics.other_minutes

focus_ratio(metrics) ==
    IF metrics.total_minutes = 0 THEN 0
    ELSE Max2(Div(focus_minutes(metrics) * 100, metrics.total_minutes), 0)

distraction_ratio(metrics) ==
    IF metrics.total_minutes = 0 THEN 0
    ELSE Max2(Div(distraction_minutes(metrics) * 100, metrics.total_minutes), 0)

\* a mutant of effort_score: the quotient is not capped
effort_score_uncapped(metrics, target_minutes) ==
    IF metrics.total_minutes = 0 \/ target_minutes <= 0 THEN 0
    ELSE Max2(Div(metrics.total_minutes * 100, target_minutes), 0)

\* a mutant of effort_score: a quotient above 100 counts for nothing
effort_score_reset(metrics, target_minutes) ==
    IF metrics.total_minutes = 0 \/ target_minutes <= 0 THEN 0
    ELSE IF Div(metrics.total_minutes * 100, target_minutes) > 100 THEN 0
         ELSE Max2(Div(metrics.total_minutes * 100, target_minutes), 0)

effort_score(metrics, target_minutes) ==
    IF metrics.total_minutes = 0 \/ target_minutes <= 0 THEN 0
    ELSE Max2(Min2(Div(metrics.total_minutes * 100, target_minutes), 100), 0)

focus_score(metrics) == focus_ratio(metrics)

\* a mutant of productivity_score: the two weights are exchanged
productivity_score_swapped(metrics, focus_weight, effort_weight, target_minutes) ==
    Div(focus_score(metrics) * effort_weight
            + effort_score(metrics, target_minutes) * focus_weight,
        Max2(focus_weight + effort_weight, 1))

productivity_score(metrics, focus_weight, effort_weight, target_minutes) ==
    Div(focus_score(metrics) * focus_weight
            + effort_score(metrics, target_minutes) * effort_weight,
        Max2(focus_weight + effort_weight, 1))

\* a mutant of ScoreConfigOf: the configured values are taken as they are
ScoreConfigOfRaw(cfg) ==
    [focus_weight  |-> cfg.weekly_focus_weight,
     effort_weight |-> 100 - cfg.weekly_focus_weight,
     target_minutes |-> cfg.weekly_target_minutes]

\* the WeekScoreConfig build_week_summary derives from the configuration
ScoreConfigOf(cfg) ==
    [focus_weight  |-> Min2(cfg.weekly_focus_weight, 100),
     effort_weight |-> 100 - Min2(cfg.weekly_focus_weight, 100),
     target_minutes |-> Max2(cfg.weekly_target_minutes, 1)]

\* a mutant of render_week_focus_metrics: the metric lines whatever the total
render_week_focus_metrics_zero_filled(metrics, score) ==
    [marker |-> "focus",
     focus_minutes |-> focus_minutes(metrics),
     focus_ratio |-> focus_ratio(metrics),
     communication_minutes |-> metrics.communication_minutes,
     distraction_minutes |-> distraction_minutes(metrics),
     distraction_ratio |-> distraction_ratio(metrics),
     focus_score |-> focus_score(metrics),
     effort_score |-> effort_score(metrics, score.target_minutes),
     productivity_score |->
         productivity_score(metrics, score.focus_weight, score.effort_weight,
                            score.target_minutes)]

\* render_week_focus_metrics: the "no focus data" marker, or the metric lines
render_week_focus_metrics(metrics, score) ==
    IF metrics.total_minutes = 0 THEN [marker |-> "no_focus_data"]
    ELSE [marker |-> "focus",
          focus_minutes |-> focus_minutes(metrics),
          focus_ratio |-> focus_ratio(metrics),
          communication_minutes |-> metrics.communication_minutes,
          distraction_minutes |-> distraction_minutes(metrics),
          distraction_ratio |-> distraction_ratio(metrics),
          focus_score |-> focus_score(metrics),
          effort_score |-> effort_score(metrics, score.target_minutes),
          productivity_score |->
              productivity_score(metrics, score.focus_weight, score.effort_weight,
                                 score.target_minutes)]

(***************************************************************************)
(* Aggregation queries: month and week rollups.                            *)
(***************************************************************************)
\* a.date.cmp(&b.date) on "YYYY-MM-DD" texts
DateLeq(a, b) ==
    \/ a[1] < b[1]
    \/ a[1] = b[1] /\ a[2] < b[2]
    \/ a[1] = b[1] /\ a[2] = b[2] /\ a[3] <= b[3]

\* db.get_activities(start_date, end_date)
get_activities(world, start_date, end_date) ==
    SelectSeq(world.activities,
              LAMBDA a : DateLeq(start_date, a.date) /\ DateLeq(a.date, end_date))

RECURSIVE InsertByDate(_, _)
InsertByDate(sorted, a) ==
    IF sorted = <<>> THEN <<a>>
    ELSE IF DateLeq(sorted[Len(sorted)].date, a.date) THEN Append(sorted, a)
    ELSE Append(InsertByDate(SubSeq(sorted, 1, Len(sorted) - 1), a), sorted[Len(sorted)])

RECURSIVE SortByDate(_)
\* activities.sort_by(|a, b| a.date.cmp(&b.date)): a stable sort
SortByDate(acts) ==
    IF acts = <<>> THEN <<>>
    ELSE InsertByDate(SortByDate(SubSeq(acts, 1, Len(acts) - 1)), acts[Len(acts)])

RECURSIVE SumOf(_, _)
SumOf(acts, field) ==
    IF acts = <<>> THEN 0 ELSE acts[1][field] + SumOf(Tail(acts), field)

\* in how many (activity, position) places the category occurs
CategoryCount(acts, category) ==
    Cardinality(UNION {{<<i, j>> : j \in {k \in DOMAIN acts[i].main_categories :
                                              acts[i].main_categories[k] = category}} :
                       i \in DOMAIN acts})

CategoriesOf(acts) == UNION {Range(acts[i].main_categories) : i \in DOMAIN acts}

\* the top-categories texts the code can produce: the categories by descending
\* count, at most five, equal counts in the order the HashMap happens to yield
TopCategoryOrders(acts) ==
    LET cats == CategoriesOf(acts)
        n    == Cardinality(cats)
    IN {[i \in 1..Min2(n, 5) |-> <<f[i], CategoryCount(acts, f[i])>>] :
           f \in {g \in [1..n -> cats] :
                     /\ \A i, j \in 1..n : i # j => g[i] # g[j]
                     /\ \A i, j \in 1..n :
                            i < j => CategoryCount(acts, g[i]) >= CategoryCount(acts, g[j])}}

\* the day table: one row per activity, or the single placeholder row
TableLines(acts) ==
    IF acts = <<>> THEN [marker |-> "no_activity", rows |-> <<>>]
    ELSE [marker |-> "rows",
          rows |-> [i \in DOMAIN acts |->
                       [date_link |-> acts[i].date,
                        session_count |-> acts[i].session_count,
                        minutes |-> acts[i].total_duration_minutes,
                        categories |-> acts[i].main_categories]]]

AvgSessionMinutes(total_sessions, total_minutes) ==
    IF total_sessions > 0 THEN Div(total_minutes, total_sessions) ELSE 0

\* the last day of the month of a date
MonthEnd(day) == <<day[1], day[2], DaysInMonth(day[1], day[2])>>

MonthStart(day) == <<day[1], day[2], 1>>

\* the month index document of export_month_index
MonthIndexContent(day, activities, top_categories) ==
    LET acts == SortByDate(activities)
    IN [type |-> "screen-analyzer-index",
        month |-> <<day[1], day[2]>>,
        total_sessions |-> SumOf(acts, "session_count"),
        total_minutes |-> SumOf(acts, "total_duration_minutes"),
        avg_session_minutes |-> AvgSessionMinutes(SumOf(acts, "session_count"),
                                                  SumOf(acts, "total_duration_minutes")),
        top_categories |-> top_categories,
        table |-> TableLines(acts)]

\* compact_summary_text: line breaks become spaces, then at most max_len
\* characters are kept, followed by "..." when something was cut
compact_summary_text(text, max_len) ==
    LET cleaned == [i \in DOMAIN text |-> IF text[i] \in {"\n", "\r"} THEN " " ELSE text[i]]
    IN IF Len(cleaned) <= max_len THEN cleaned
       ELSE SubSeq(cleaned, 1, max_len) \o <<".", ".", ".">>

\* a mutant of WeekDays: the seven days start on the Sunday before
WeekDaysFromSunday(day) == [i \in 1..7 |-> CivilFromDays(WeekStartDays(day) + i - 2)]

\* the seven calendar days week_start .. week_end
WeekDays(day) == [i \in 1..7 |-> CivilFromDays(WeekStartDays(day) + i - 1)]

\* db.get_sessions_by_date(date): dates without stored sessions list nothing
get_sessions_by_date(world, d) == IF d \in DOMAIN world.sessions THEN world.sessions[d] ELSE <<>>

RECURSIVE AddSessions(_, _, _, _)
\* the cards of the listed sessions, added unless the session has no id or its fetch failed
AddSessions(metrics, world, listed, failed_cards) ==
    IF listed = <<>> THEN metrics
    ELSE LET session == Head(listed)
             next == IF session.id = None \/ session.id[1] \in failed_cards THEN metrics
                     ELSE add_cards(metrics, world.cards[session.id[1]])
         IN AddSessions(next, world, Tail(listed), failed_cards)

RECURSIVE AddDays(_, _, _, _, _)
AddDays(metrics, world, days, failed_days, failed_cards) ==
    IF days = <<>> THEN metrics
    ELSE LET next == IF Head(days) \in failed_days THEN metrics
                     ELSE AddSessions(metrics, world,
                                      get_sessions_by_date(world, Head(days)), failed_cards)
         IN AddDays(next, world, Tail(days), failed_days, failed_cards)

\* compute_week_focus_metrics: a failed listing or card fetch contributes nothing
compute_week_focus_metrics(world, day, failed_days, failed_cards) ==
    AddDays(DefaultFocusMetrics, world, WeekDays(day), failed_days, failed_cards)

\* the highlight line of one day of the week
HighlightLine(world, d, failed_summaries) ==
    [link |-> d,
     text |-> IF d \in DOMAIN world.summaries /\ d \notin failed_summaries
              THEN [marker |-> "excerpt", text |-> compact_summary_text(world.summaries[d], 140)]
              ELSE [marker |-> "no_summary", text |-> <<>>]]

\* the WeekSummaryData build_week_summary returns on success
WeekSummaryData(world, cfg, day, top_categories, failed_days, failed_cards, failed_summaries) ==
    LET acts == SortByDate(get_activities(world, CivilFromDays(WeekStartDays(day)),
                                          CivilFromDays(WeekEndDays(day))))
    IN [week_label |-> IsoWeek(day),
        week_start |-> CivilFromDays(WeekStartDays(day)),
        week_end |-> CivilFromDays(WeekEndDays(day)),
        total_sessions |-> SumOf(acts, "session_count"),
        total_minutes |-> SumOf(acts, "total_duration_minutes"),
        avg_session_minutes |-> AvgSessionMinutes(SumOf(acts, "session_count"),
                                                  SumOf(acts, "total_duration_minutes")),
        top_categories |-> top_categories,
        table_lines |-> TableLines(acts),
        focus_metrics |-> compute_week_focus_metrics(world, day, failed_days, failed_cards),
        score_config |-> ScoreConfigOf(cfg),
        daily_highlights |-> [i \in 1..7 |->
                                 HighlightLine(world, WeekDays(day)[i], failed_summaries)]]

\* the focus and score fields of the front matter of the week index and of the
\* weekly report
WeekFrontMatter(summary) ==
    [focus_minutes |-> focus_minutes(summary.focus_metrics),
     focus_ratio |-> focus_ratio(summary.focus_metrics),
     distraction_minutes |-> distraction_minutes(summary.focus_metrics),
     distraction_ratio |-> distraction_ratio(summary.focus_metrics),
     communication_minutes |-> summary.focus_metrics.communication_minutes,
     focus_score |-> focus_score(summary.focus_metrics),
     effort_score |-> effort_score(summary.focus_metrics,
                                   summary.score_config.target_minutes),
     productivity_score |->
         productivity_score(summary.focus_metrics, summary.score_config.focus_weight,
                            summary.score_config.effort_weight,
                            summary.score_config.target_minutes)]

\* the week index document
WeekIndexContent(summary) ==
    [type |-> "screen-analyzer-week-index",
     summary |-> [summary EXCEPT !.daily_highlights = <<>>],
     front_matter |-> WeekFrontMatter(summary),
     focus_summary |-> render_week_focus_metrics(summary.focus_metrics, summary.score_config)]

\* render_weekly_note
render_weekly_note(summary) ==
    [type |-> "screen-analyzer-weekly",
     summary |-> summary,
     front_matter |-> WeekFrontMatter(summary),
     focus_summary |-> render_week_focus_metrics(summary.focus_metrics, summary.score_config),
     week_index_link |-> summary.week_label]

\* the overview document
OverviewContent(date, week_summary, updated_at) ==
    [type |-> "screen-analyzer-overview",
     updated_at |-> updated_at,
     daily_link |-> date,
     week_link |-> IF week_summary = None THEN None ELSE Some(week_summary[1].week_label),
     month_index_link |-> <<date[1], date[2]>>]

(***************************************************************************)
(* State.                                                                  *)
(*   config, date  the configuration each exporter was built with and the  *)
(*                 date it is invoked for                                  *)
(*   db            the storage contents                                    *)
(*   fs, dirs      the files and directories of the vaults                 *)
(*   clock         local_now(), advanced by every invocation               *)
(*   faults        the I/O failures injected so far                        *)
(*   budget        the invocations each exporter may still start           *)
(*   run           per exporter, the position and the locals of its        *)
(*                 current export_day call, with the record of what the    *)
(*                 call did: trace (I/O calls in order), processed (one    *)
(*                 entry per export_session call), generated (the last     *)
(*                 document rendered for each note path)                   *)
(*   history       per exporter, how its finished invocations ended        *)
(*   bench         the inputs and results of the functions exercised on    *)
(*                 their own, outside an export_day call                   *)
(***************************************************************************)
VARIABLES config, date, db, fs, dirs, clock, faults, budget, run, history, bench

vars == <<config, date, db, fs, dirs, clock, faults, budget, run, history, bench>>

\* nothing is exercised on its own
NoBench == [kind |-> "none"]

\* the texts the summarizer may return
SummaryTexts == {<<"s">>, <<"t", "\n", "u">>}

Ev(op, path) == [op |-> op, path |-> path]

Warning(kind, session_id) == [kind |-> kind, session_id |-> session_id]

\* the locals of export_day before its first statement
FreshRun ==
    [pc |-> "idle", day_summary |-> None, sessions |-> <<>>, next_session |-> 1,
     warnings |-> <<>>, session_paths |-> <<>>, session_links |-> <<>>,
     index_note_path |-> None, week_summary |-> None, week_index_path |-> None,
     weekly_note_path |-> None, overview_path |-> None, outcome |-> None,
     error |-> "", trace |-> <<>>, processed |-> <<>>, generated |-> <<>>]

\* the state before any invocation, but for config, date, db, faults and budget
Quiet ==
    /\ fs = <<>>
    /\ dirs = {}
    /\ clock = 0
    /\ run = [p \in Procs |-> FreshRun]
    /\ history = [p \in Procs |-> <<>>]

\* how a finished export_day call ended
Ending(r) ==
    IF r.pc = "failed" THEN "fatal"
    ELSE IF r.warnings # <<>> THEN "partial" ELSE "full"

\* RootOf of the exporter's configuration
Root(p) == RootOf(config[p])

RECURSIVE SmallSubsets(_, _)
\* the subsets of S with at most k elements
SmallSubsets(S, k) ==
    IF k <= 0 THEN {{}}
    ELSE LET smaller == SmallSubsets(S, k - 1)
         IN smaller \cup {T \cup {x} : T \in smaller, x \in S}

\* export_day is called
Invoke(p) ==
    /\ run[p].pc \in {"idle", "done", "failed"}
    /\ budget[p] > 0
    /\ budget' = [budget EXCEPT ![p] = @ - 1]
    /\ clock' = clock + 1
    /\ history' = IF run[p].pc = "idle" THEN history
                  ELSE [history EXCEPT ![p] = Append(@, Ending(run[p]))]
    /\ run' = [run EXCEPT ![p] = [FreshRun EXCEPT !.pc = "dirs"]]
    /\ UNCHANGED <<bench, config, date, db, fs, dirs, faults>>

\* a mutant of FailWith: a failed daily-note write is only a warning
FailWithDailyWarning(r, error) ==
    IF r.pc = "daily"
    THEN [r EXCEPT !.pc = "month", !.warnings = Append(@, Warning("daily_note", 0))]
    ELSE [r EXCEPT !.pc = "failed", !.error = error]

\* return Err(error): the call ends without an outcome
FailWith(r, error) == [r EXCEPT !.pc = "failed", !.error = error]

\* a mutant of VaultProblem: the vault is not looked for on disk
VaultProblemNoExists(cfg) ==
    IF Trim(cfg.vault_path) = <<>> THEN "vault_not_configured" ELSE ""

\* the precondition check on the vault path: the error, or "" when it passes
VaultProblem(cfg) ==
    IF Trim(cfg.vault_path) = <<>> THEN "vault_not_configured"
    ELSE IF Trim(cfg.vault_path) \notin ExistingVaults THEN "vault_missing"
    ELSE ""

\* the directories export_day creates first, in order
WantedDirs(cfg, d) ==
    <<DailyDir(RootOf(cfg)), SessionsDir(RootOf(cfg), d)>>
        \o (IF cfg.include_screenshots THEN <<AssetsDir(RootOf(cfg), d)>> ELSE <<>>)

\* the vault check and the creation of the Daily, Sessions and Assets directories
EnsureDirs(p) ==
    /\ run[p].pc = "dirs"
    /\ IF VaultProblem(config[p]) # ""
       THEN /\ run' = [run EXCEPT ![p] = FailWith(@, VaultProblem(config[p]))]
            /\ UNCHANGED <<dirs, faults>>
       ELSE LET wanted == WantedDirs(config[p], date[p])
            IN \E made \in 0..Len(wanted) :
                  /\ made < Len(wanted) => faults < MaxFaults
                  /\ faults' = IF made < Len(wanted) THEN faults + 1 ELSE faults
                  /\ dirs' = dirs \cup {wanted[i] : i \in 1..made}
                  /\ LET tried == [i \in 1..Min2(made + 1, Len(wanted)) |->
                                      Ev("create_dir_all", wanted[i])]
                         r == [run[p] EXCEPT !.trace = @ \o tried]
                     IN run' = [run EXCEPT ![p] =
                                   IF made < Len(wanted) THEN FailWith(r, "io")
                                   ELSE [r EXCEPT !.pc = "summary"]]
    /\ UNCHANGED <<bench, config, date, db, fs, clock, budget, history>>

\* summary_generator.generate_day_summary(date, force_refresh)
GenerateDaySummary(p) ==
    /\ run[p].pc = "summary"
    /\ LET r == [run[p] EXCEPT !.trace = Append(@, Ev("generate_day_summary", NoPath))]
       IN \/ /\ faults < MaxFaults
             /\ faults' = faults + 1
             /\ run' = [run EXCEPT ![p] = FailWith(r, "summary")]
          \/ /\ \E text \in SummaryTexts :
                   run' = [run EXCEPT ![p] =
                              [r EXCEPT !.pc = "list",
                                        !.day_summary =
                                            Some([date |-> date[p], summary_text |-> text])]]
             /\ UNCHANGED faults
    /\ UNCHANGED <<bench, config, date, db, fs, dirs, clock, budget, history>>

\* db.get_sessions_by_date(date)
ListSessions(p) ==
    /\ run[p].pc = "list"
    /\ LET r == [run[p] EXCEPT !.trace = Append(@, Ev("get_sessions_by_date", NoPath))]
           listed == get_sessions_by_date(db, date[p])
       IN \/ /\ faults < MaxFaults
             /\ faults' = faults + 1
             /\ run' = [run EXCEPT ![p] = FailWith(r, "sessions")]
          \/ /\ run' = [run EXCEPT ![p] =
                           [r EXCEPT !.sessions = listed,
                                     !.next_session = 1,
                                     !.pc = IF listed = <<>> THEN "daily" ELSE "sessions"]]
             /\ UNCHANGED faults
    /\ UNCHANGED <<bench, config, date, db, fs, dirs, clock, budget, history>>

\* db.get_timeline_cards_by_session(session_id).await.unwrap_or_default()
FetchedCards(world, session_id, cards_ok) ==
    IF cards_ok THEN world.cards[session_id] ELSE <<>>

\* db.get_frames_by_session(session_id).await.unwrap_or_default()
FetchedFrames(world, session_id, frames_ok) ==
    IF frames_ok THEN world.frames[session_id] ELSE <<>>

\* a mutant of export_session_result: a failed card fetch fails the session
export_session_strict(cards_ok, written) == IF cards_ok THEN written ELSE "err_open"

\* what export_session returns: Ok ("ok") exactly when its fs::write succeeded
export_session_result(cards_ok, written) == written

\* how many of the outcomes are failures
Failures(outcomes) == Cardinality({i \in DOMAIN outcomes : outcomes[i] # "ok"})

\* the fs::copy calls of one export_session call, as trace events
CopyEvents(cfg, images, assets_dir, session_id, targets) ==
    LET copying == {i \in 1..Len(targets) : CopiesFrame(cfg, images, targets[i])}
        idx == SelectIdx(Len(targets), copying)
    IN [k \in 1..Len(idx) |-> Ev("copy", AssetPath(assets_dir, session_id, idx[k] - 1))]

\* a mutant of AfterSession: a failed session ends the session loop
AfterSessionAbort(r, session, session_path, written) ==
    IF written = "ok"
    THEN [r EXCEPT !.session_paths = Append(@, session_path),
                   !.session_links = Append(@, SessionLink(session)),
                   !.next_session = @ + 1,
                   !.pc = IF r.next_session = Len(r.sessions) THEN "daily" ELSE "sessions"]
    ELSE [r EXCEPT !.warnings = Append(@, Warning("session", IdOrZero(session))),
                   !.next_session = @ + 1,
                   !.pc = "daily"]

\* the match on export_session's result in the session loop of export_day
AfterSession(r, session, session_path, written) ==
    LET pushed ==
            IF written = "ok"
            THEN [r EXCEPT !.session_paths = Append(@, session_path),
                           !.session_links = Append(@, SessionLink(session))]
            ELSE [r EXCEPT !.warnings = Append(@, Warning("session", IdOrZero(session)))]
    IN [pushed EXCEPT !.next_session = @ + 1,
                      !.pc = IF r.next_session = Len(r.sessions) THEN "daily" ELSE "sessions"]

\* one turn of the session loop: export_session for the next listed session
ExportSession(p) ==
    /\ run[p].pc = "sessions"
    /\ LET cfg == config[p]
           session == run[p].sessions[run[p].next_session]
           session_id == IdOrZero(session)
           sessions_dir == SessionsDir(Root(p), date[p])
           assets_dir == AssetsDir(Root(p), date[p])
           session_path == SessionPath(sessions_dir, session)
       IN \E cards_ok \in BOOLEAN, frames_ok \in BOOLEAN,
             copied \in [1..2 -> WriteOutcomes], written \in WriteOutcomes :
             LET cards == FetchedCards(db, session_id, cards_ok)
                 targets == IF cfg.include_screenshots
                            THEN pick_screenshots(FetchedFrames(db, session_id, frames_ok))
                            ELSE <<>>
                 result == export_session_result(cards_ok, written)
                 shots == IF cfg.include_screenshots
                          THEN render_screenshots(cfg, db.images, targets, copied)
                          ELSE NoScreenshotsSection
                 content == render_session_note(session, cards, shots)
                 used == (IF cards_ok THEN 0 ELSE 1) + (IF frames_ok THEN 0 ELSE 1)
                         + Failures(copied) + (IF written = "ok" THEN 0 ELSE 1)
                 events == <<Ev("export_session", session_path),
                             Ev("get_timeline_cards_by_session", NoPath)>>
                           \o (IF cfg.include_screenshots
                               THEN <<Ev("get_frames_by_session", NoPath)>>
                                    \o CopyEvents(cfg, db.images, assets_dir, session_id,
                                                  targets)
                               ELSE <<>>)
                           \o <<Ev("write", session_path)>>
                 r == [run[p] EXCEPT
                          !.trace = @ \o events,
                          !.generated = (session_path :> content) @@ @,
                          !.processed = Append(@, [session_id |-> session_id,
                                                    path |-> session_path,
                                                    cards_ok |-> cards_ok,
                                                    targets |-> targets,
                                                    copied |-> copied,
                                                    content |-> content,
                                                    written |-> written])]
             IN \* outcomes are drawn only for the calls that are made
                /\ ~cfg.include_screenshots => frames_ok
                /\ \A i \in 1..2 :
                      (i > Len(targets) \/ ~CopiesFrame(cfg, db.images, targets[i]))
                          => copied[i] = "ok"
                /\ faults + used <= MaxFaults
                /\ faults' = faults + used
                /\ fs' = AfterWrite(CopyTargets(fs, cfg, db.images, assets_dir, session_id,
                                                targets, copied),
                                    session_path, content, written)
                /\ run' = [run EXCEPT ![p] = AfterSession(r, session, session_path, result)]
    /\ UNCHANGED <<bench, config, date, db, dirs, clock, budget, history>>

\* the daily note is rendered from the exported sessions' links and written
WriteDailyNote(p) ==
    /\ run[p].pc = "daily"
    /\ LET daily_note_path == DailyNotePath(Root(p), date[p])
           content == render_daily_note(run[p].day_summary[1], run[p].session_links)
           r == [run[p] EXCEPT !.trace = Append(@, Ev("write", daily_note_path)),
                               !.generated = (daily_note_path :> content) @@ @]
       IN \E written \in WriteOutcomes :
             /\ written # "ok" => faults < MaxFaults
             /\ faults' = IF written = "ok" THEN faults ELSE faults + 1
             /\ fs' = AfterWrite(fs, daily_note_path, content, written)
             /\ run' = [run EXCEPT ![p] =
                           IF written = "ok" THEN [r EXCEPT !.pc = "month"]
                           ELSE FailWith(r, "io")]
    /\ UNCHANGED <<bench, config, date, db, dirs, clock, budget, history>>

\* the outcomes of create_dir_all followed by fs::write
IndexOutcomes == {"ok", "err_mkdir", "err_open", "err_write"}

\* export_index_file and export_weekly_note_with_summary: the directories after
DirsAfter(ds, dir, outcome) == IF outcome = "err_mkdir" THEN ds ELSE ds \cup {dir}

\* ... and the files after
FilesAfter(files, path, block, outcome) ==
    IF outcome = "err_mkdir" THEN files ELSE AfterWrite(files, path, block, outcome)

\* ... and the I/O calls made
IndexEvents(dir, path, outcome) ==
    <<Ev("create_dir_all", dir)>>
        \o (IF outcome = "err_mkdir" THEN <<>> ELSE <<Ev("write", path)>>)

\* a mutant of MonthIndexFailed: the failure is propagated like a fatal one
MonthIndexFailedFatal(r) == FailWith(r, "io")

\* the Err arm of the match on export_month_index's result
MonthIndexFailed(r) ==
    [r EXCEPT !.warnings = Append(@, Warning("month_index", 0)), !.pc = "week"]

\* export_month_index and the match on its result
ExportMonthIndex(p) ==
    /\ run[p].pc = "month"
    /\ IF ~parse_date_ok(date[p])
       THEN /\ run' = [run EXCEPT ![p] =
                          MonthIndexFailed([@ EXCEPT !.trace =
                              Append(@, Ev("export_month_index", NoPath))])]
            /\ UNCHANGED <<fs, dirs, faults>>
       ELSE LET index_path == MonthIndexPath(Root(p), date[p])
                activities == get_activities(db, MonthStart(date[p]), MonthEnd(date[p]))
                asked == [run[p] EXCEPT
                             !.trace = @ \o <<Ev("export_month_index", index_path),
                                              Ev("get_activities", NoPath)>>]
            IN \/ \* db.get_activities fails
                  /\ faults < MaxFaults
                  /\ faults' = faults + 1
                  /\ run' = [run EXCEPT ![p] = MonthIndexFailed(asked)]
                  /\ UNCHANGED <<fs, dirs>>
               \/ \E top \in TopCategoryOrders(activities), outcome \in IndexOutcomes :
                     LET content == MonthIndexContent(date[p], activities, top)
                         r == [asked EXCEPT
                                  !.trace = @ \o IndexEvents(IndexDir(Root(p)), index_path,
                                                             outcome),
                                  !.generated = (index_path :> content) @@ @,
                                  !.pc = "week"]
                     IN /\ outcome # "ok" => faults < MaxFaults
                        /\ faults' = IF outcome = "ok" THEN faults ELSE faults + 1
                        /\ dirs' = DirsAfter(dirs, IndexDir(Root(p)), outcome)
                        /\ fs' = FilesAfter(fs, index_path, content, outcome)
                        /\ run' = [run EXCEPT ![p] =
                                      IF outcome = "ok"
                                      THEN [r EXCEPT !.index_note_path = Some(index_path)]
                                      ELSE MonthIndexFailed(r)]
    /\ UNCHANGED <<bench, config, date, db, clock, budget, history>>

\* the fetches build_week_summary makes whose failure it tolerates: the session
\* listing of each day, the cards of each session, the stored summary of each day
TolerantFetches(world, day) ==
    ({"sessions", "summary"} \X (1..7))
        \cup ({"cards"} \X {IdOrZero(get_sessions_by_date(world, WeekDays(day)[i])[k]) :
                              <<i, k>> \in {x \in (1..7) \X (1..2) :
                                  x[2] <= Len(get_sessions_by_date(world, WeekDays(day)[x[1]]))}})

\* a mutant of WeekSummaryFailed: the week index is still attempted
WeekSummaryFailedIndexGoesOn(r) ==
    [r EXCEPT !.warnings = Append(@, Warning("week_summary", 0)), !.pc = "week_index"]

\* the Err arm of the match on build_week_summary's result
WeekSummaryFailed(r) ==
    [r EXCEPT !.warnings = Append(@, Warning("week_summary", 0)), !.pc = "overview"]

\* build_week_summary and the match on its result
BuildWeekSummary(p) ==
    /\ run[p].pc = "week"
    /\ IF ~parse_date_ok(date[p])
       THEN /\ run' = [run EXCEPT ![p] =
                          WeekSummaryFailed([@ EXCEPT !.trace =
                              Append(@, Ev("build_week_summary", NoPath))])]
            /\ UNCHANGED faults
       ELSE LET asked == [run[p] EXCEPT
                             !.trace = @ \o <<Ev("build_week_summary", NoPath),
                                              Ev("get_activities", NoPath)>>]
                activities == get_activities(db, CivilFromDays(WeekStartDays(date[p])),
                                             CivilFromDays(WeekEndDays(date[p])))
            IN \/ \* db.get_activities fails
                  /\ faults < MaxFaults
                  /\ faults' = faults + 1
                  /\ run' = [run EXCEPT ![p] = WeekSummaryFailed(asked)]
               \/ \E top \in TopCategoryOrders(activities),
                     failed \in SmallSubsets(TolerantFetches(db, date[p]),
                                             MaxFaults - faults) :
                     LET days == WeekDays(date[p])
                         failed_days == {days[x[2]] : x \in {y \in failed : y[1] = "sessions"}}
                         failed_cards == {x[2] : x \in {y \in failed : y[1] = "cards"}}
                         failed_summaries ==
                             {days[x[2]] : x \in {y \in failed : y[1] = "summary"}}
                         summary == WeekSummaryData(db, config[p], date[p], top, failed_days,
                                                    failed_cards, failed_summaries)
                     IN /\ faults' = faults + Cardinality(failed)
                        /\ run' = [run EXCEPT ![p] =
                                      [asked EXCEPT
                                          !.trace = @ \o <<Ev("get_sessions_by_date", NoPath),
                                                           Ev("get_day_summary", NoPath)>>,
                                          !.week_summary = Some(summary),
                                          !.pc = "week_index"]]
    /\ UNCHANGED <<bench, config, date, db, fs, dirs, clock, budget, history>>

\* a mutant of AfterWeekIndex: a failed week index skips the weekly report
AfterWeekIndexSkip(r, index_path, outcome) ==
    IF outcome = "ok"
    THEN [r EXCEPT !.week_index_path = Some(index_path), !.pc = "weekly_note"]
    ELSE [r EXCEPT !.warnings = Append(@, Warning("week_index", 0)), !.pc = "overview"]

\* the match on export_week_index_with_summary's result
AfterWeekIndex(r, index_path, outcome) ==
    IF outcome = "ok"
    THEN [r EXCEPT !.week_index_path = Some(index_path), !.pc = "weekly_note"]
    ELSE [r EXCEPT !.warnings = Append(@, Warning("week_index", 0)), !.pc = "weekly_note"]

\* export_week_index_with_summary
ExportWeekIndex(p) ==
    /\ run[p].pc = "week_index"
    /\ LET summary == run[p].week_summary[1]
           index_path == WeekIndexPath(Root(p), summary.week_label)
           content == WeekIndexContent(summary)
       IN \E outcome \in IndexOutcomes :
             LET r == [run[p] EXCEPT
                          !.trace = @ \o <<Ev("export_week_index_with_summary", index_path)>>
                                      \o IndexEvents(IndexDir(Root(p)), index_path, outcome),
                          !.generated = (index_path :> content) @@ @]
             IN /\ outcome # "ok" => faults < MaxFaults
                /\ faults' = IF outcome = "ok" THEN faults ELSE faults + 1
                /\ dirs' = DirsAfter(dirs, IndexDir(Root(p)), outcome)
                /\ fs' = FilesAfter(fs, index_path, content, outcome)
                /\ run' = [run EXCEPT ![p] = AfterWeekIndex(r, index_path, outcome)]
    /\ UNCHANGED <<bench, config, date, db, clock, budget, history>>

\* export_weekly_note_with_summary and the match on its result
ExportWeeklyNote(p) ==
    /\ run[p].pc = "weekly_note"
    /\ LET summary == run[p].week_summary[1]
           weekly_path == WeeklyNotePath(Root(p), summary.week_label)
           content == render_weekly_note(summary)
       IN \E outcome \in IndexOutcomes :
             LET r == [run[p] EXCEPT
                          !.trace = @ \o <<Ev("export_weekly_note_with_summary", weekly_path)>>
                                      \o IndexEvents(WeeklyDir(Root(p)), weekly_path, outcome),
                          !.generated = (weekly_path :> content) @@ @,
                          !.pc = "overview"]
             IN /\ outcome # "ok" => faults < MaxFaults
                /\ faults' = IF outcome = "ok" THEN faults ELSE faults + 1
                /\ dirs' = DirsAfter(dirs, WeeklyDir(Root(p)), outcome)
                /\ fs' = FilesAfter(fs, weekly_path, content, outcome)
                /\ run' = [run EXCEPT ![p] =
                              IF outcome = "ok"
                              THEN [r EXCEPT !.weekly_note_path = Some(weekly_path)]
                              ELSE [r EXCEPT !.warnings =
                                        Append(@, Warning("weekly_note", 0))]]
    /\ UNCHANGED <<bench, config, date, db, clock, budget, history>>

\* the ExportOutcome export_day returns
OutcomeOf(r, daily_note_path) ==
    [daily_note_path |-> daily_note_path,
     session_paths |-> r.session_paths,
     index_note_path |-> r.index_note_path,
     week_index_path |-> r.week_index_path,
     weekly_note_path |-> r.weekly_note_path,
     overview_path |-> r.overview_path,
     warnings |-> r.warnings]

\* export_overview_index, the match on its result, and Ok(ExportOutcome)
ExportOverview(p) ==
    /\ run[p].pc = "overview"
    /\ LET daily_note_path == DailyNotePath(Root(p), date[p])
       IN IF ~parse_date_ok(date[p])
          THEN /\ LET r == [run[p] EXCEPT
                                   !.trace = Append(@, Ev("export_overview_index", NoPath)),
                                   !.warnings = Append(@, Warning("overview", 0)),
                                   !.pc = "done"]
                  IN run' = [run EXCEPT ![p] =
                                [r EXCEPT !.outcome = Some(OutcomeOf(r, daily_note_path))]]
               /\ UNCHANGED <<fs, dirs, faults>>
          ELSE LET index_path == OverviewPath(Root(p))
                   content == OverviewContent(date[p], run[p].week_summary, clock)
               IN \E outcome \in IndexOutcomes :
                     LET r == [run[p] EXCEPT
                                  !.trace = @ \o <<Ev("export_overview_index", index_path)>>
                                              \o IndexEvents(IndexDir(Root(p)), index_path,
                                                             outcome),
                                  !.generated = (index_path :> content) @@ @,
                                  !.pc = "done"]
                         ended == IF outcome = "ok"
                                  THEN [r EXCEPT !.overview_path = Some(index_path)]
                                  ELSE [r EXCEPT !.warnings =
                                            Append(@, Warning("overview", 0))]
                     IN /\ outcome # "ok" => faults < MaxFaults
                        /\ faults' = IF outcome = "ok" THEN faults ELSE faults + 1
                        /\ dirs' = DirsAfter(dirs, IndexDir(Root(p)), outcome)
                        /\ fs' = FilesAfter(fs, index_path, content, outcome)
                        /\ run' = [run EXCEPT ![p] =
                                      [ended EXCEPT !.outcome =
                                          Some(OutcomeOf(ended, daily_note_path))]]
    /\ UNCHANGED <<bench, config, date, db, clock, budget, history>>

(***************************************************************************)
(* Specifications.                                                         *)
(*   Spec      one exporter, invoked up to MaxRuns times in a row          *)
(*   SpecConc  two exporters, one invocation each, their steps interleaved *)
(***************************************************************************)
Step(p) ==
    \/ Invoke(p)
    \/ EnsureDirs(p)
    \/ GenerateDaySummary(p)
    \/ ListSessions(p)
    \/ ExportSession(p)
    \/ WriteDailyNote(p)
    \/ ExportMonthIndex(p)
    \/ BuildWeekSummary(p)
    \/ ExportWeekIndex(p)
    \/ ExportWeeklyNote(p)
    \/ ExportOverview(p)

Init ==
    /\ Quiet
    /\ db \in Worlds
    /\ config \in {c \in [Procs -> Configs] : c[2] = CfgCopy}
    /\ date \in {d \in [Procs -> Dates] : d[2] = DMon}
    /\ faults = 0
    /\ budget = [p \in Procs |-> IF p = 1 THEN MaxRuns ELSE 0]
    /\ bench = NoBench

Next == \E p \in {1} : Step(p)

Spec == Init /\ [][Next]_vars

\* the second exporter shares the first one's vault and root (CfgCopy), or works
\* in a folder of that vault (CfgLink), or in another vault (CfgPlain); the
\* environment injects no failure, so that each call writes all it can write
InitConc ==
    /\ Quiet
    /\ db = WorldOne
    /\ config \in {c \in [Procs -> {CfgCopy, CfgLink, CfgPlain}] : c[1] = CfgCopy}
    /\ date \in [Procs -> Dates]
    /\ faults = MaxFaults
    /\ budget = [p \in Procs |-> 1]
    /\ bench = NoBench

NextConc == \E p \in Procs : Step(p)

SpecConc == InitConc /\ [][NextConc]_vars

(***************************************************************************)
(* Vocabulary of the properties.                                           *)
(***************************************************************************)
Done(p) == run[p].pc = "done"

Failed(p) == run[p].pc = "failed"

\* the session loop of the call is over
LoopOver(r) ==
    \/ r.pc \in {"daily", "month", "week", "week_index", "weekly_note", "overview", "done"}
    \/ r.pc = "failed" /\ r.error = "io" /\ r.day_summary # None

WarningsOf(r, kind) == SelectSeq(r.warnings, LAMBDA w : w.kind = kind)

\* the calls of one kind in the trace
Calls(r, op) == {i \in DOMAIN r.trace : r.trace[i].op = op}

\* the families of the files the call tried to write or copy
WrittenKinds(r) ==
    {r.trace[i].path.kind : i \in {j \in DOMAIN r.trace : r.trace[j].op \in {"write", "copy"}}}

\* the file paths the call tried to write or copy
Touched(r) ==
    {r.trace[i].path : i \in {j \in DOMAIN r.trace : r.trace[j].op \in {"write", "copy"}}}

IndexKinds ==
    {"Index/sessions-<month>.md", "Index/weeks-<week>.md", "Weekly/<week>.md",
     "Index/overview.md"}

BadVault(cfg) == Trim(cfg.vault_path) = <<>> \/ Trim(cfg.vault_path) \notin ExistingVaults

\* no other exporter is or will be at work
Alone(p) == \A q \in Procs \ {p} : run[q].pc = "idle" /\ budget[q] = 0

(***************************************************************************)
(* C1: every listed session is processed once, in listing order, and ends  *)
(* either with its path in session_paths or with one warning naming its    *)
(* id; a failing session does not end the loop, so after the loop          *)
(* |session_paths| + |session warnings| = |sessions|.                      *)
(***************************************************************************)
C1_SessionLoop ==
    \A p \in Procs :
        LET r == run[p]
            good == SelectSeq(r.processed, LAMBDA e : e.written = "ok")
            bad == SelectSeq(r.processed, LAMBDA e : e.written # "ok")
        IN /\ Len(r.processed) <= Len(r.sessions)
           /\ r.pc = "sessions" => Len(r.processed) = r.next_session - 1
           /\ \A i \in DOMAIN r.processed :
                 /\ r.processed[i].session_id = IdOrZero(r.sessions[i])
                 /\ r.processed[i].path
                        = SessionPath(SessionsDir(Root(p), date[p]), r.sessions[i])
           /\ r.session_paths = [i \in DOMAIN good |-> good[i].path]
           /\ Len(r.session_links) = Len(r.session_paths)
           /\ WarningsOf(r, "session")
                  = [i \in DOMAIN bad |-> Warning("session", bad[i].session_id)]
           /\ LoopOver(r) =>
                 /\ Len(r.processed) = Len(r.sessions)
                 /\ Len(r.session_paths) + Len(WarningsOf(r, "session")) = Len(r.sessions)

\* a finished export whose first session failed and whose second was exported
C1_Witness ==
    \E p \in Procs :
        /\ Done(p)
        /\ Len(run[p].sessions) = 2
        /\ run[p].processed[1].written # "ok"
        /\ run[p].processed[2].written = "ok"
        /\ Len(run[p].outcome[1].session_paths) = 1
        /\ Len(WarningsOf(run[p].outcome[1], "session")) = 1

(***************************************************************************)
(* C2: with a vault path that is blank after trimming, or that does not    *)
(* exist, export_day returns an error before any other step: it creates no *)
(* directory, calls neither the summarizer nor the storage, writes no file.*)
(***************************************************************************)
C2_BadVaultFailsFirst ==
    \A p \in Procs :
        BadVault(config[p]) =>
            /\ run[p].pc \in {"idle", "dirs", "failed"}
            /\ run[p].trace = <<>>
            /\ run[p].outcome = None
            /\ Alone(p) => dirs = {} /\ fs = <<>>

\* export_day has returned the error for a vault path of blanks only
C2_Witness ==
    \E p \in Procs :
        /\ Failed(p)
        /\ config[p].vault_path # <<>>
        /\ Trim(config[p].vault_path) = <<>>
        /\ run[p].error = "vault_not_configured"

(***************************************************************************)
(* C3: a failure of directory creation, of the day summary, of the session *)
(* listing or of the daily-note write ends export_day with an error and    *)
(* without an outcome, and no later step is attempted: after a summary or  *)
(* listing failure nothing is written, after a daily-note failure no month *)
(* index, week index, weekly report or overview is written; an outcome is  *)
(* only returned when all four steps succeeded.                            *)
(***************************************************************************)
C3_FatalStepsAbort ==
    \A p \in Procs :
        LET r == run[p]
            last == r.trace[Len(r.trace)]
            daily == DailyNotePath(Root(p), date[p])
        IN /\ Failed(p) /\ ~BadVault(config[p]) =>
                 /\ r.outcome = None
                 /\ r.error \in {"io", "summary", "sessions"}
                 /\ r.error = "summary" =>
                        last.op = "generate_day_summary" /\ WrittenKinds(r) = {}
                 /\ r.error = "sessions" =>
                        last.op = "get_sessions_by_date" /\ WrittenKinds(r) = {}
                 /\ r.error = "io" /\ r.day_summary = None =>
                        \A i \in DOMAIN r.trace : r.trace[i].op = "create_dir_all"
                 /\ r.error = "io" /\ r.day_summary # None =>
                        /\ last = Ev("write", daily)
                        /\ WrittenKinds(r) \cap IndexKinds = {}
                        /\ Calls(r, "export_month_index") = {}
                        /\ Calls(r, "build_week_summary") = {}
                        /\ Calls(r, "export_overview_index") = {}
           /\ r.pc \in {"month", "week", "week_index", "weekly_note", "overview", "done"} =>
                 /\ \A i \in DOMAIN WantedDirs(config[p], date[p]) :
                        WantedDirs(config[p], date[p])[i] \in dirs
                 /\ r.day_summary # None
                 /\ Calls(r, "get_sessions_by_date") # {}
                 /\ Alone(p) => daily \in DOMAIN fs /\ fs[daily] = <<r.generated[daily]>>

\* the daily-note write failed after a session note had been written
C3_Witness ==
    \E p \in Procs :
        /\ Failed(p)
        /\ run[p].error = "io"
        /\ run[p].session_paths # <<>>
        /\ run[p].outcome = None

(***************************************************************************)
(* C4, as claimed: when the fetch of a session's timeline cards fails, a   *)
(* warning naming that session is appended.                                *)
(***************************************************************************)
C4_Claimed ==
    \A p \in Procs :
        \A i \in DOMAIN run[p].processed :
            ~run[p].processed[i].cards_ok =>
                \E k \in DOMAIN run[p].warnings :
                    run[p].warnings[k] = Warning("session", run[p].processed[i].session_id)

(***************************************************************************)
(* C4, amended: a failed fetch of a session's timeline cards is swallowed: *)
(* the session note is rendered as for a session without cards (empty      *)
(* timeline, "no metrics" marker), no warning is appended for the fetch    *)
(* (the session warnings are exactly those of the failed note writes), and *)
(* the export continues with the next session.                             *)
(***************************************************************************)
C4_FetchFailureSwallowed ==
    \A p \in Procs :
        LET r == run[p]
            unwritten == {i \in DOMAIN r.processed : r.processed[i].written # "ok"}
        IN /\ \A i \in DOMAIN r.processed :
                 ~r.processed[i].cards_ok =>
                     /\ r.processed[i].content.timeline = <<>>
                     /\ r.processed[i].content.metrics.marker = "no_metrics"
                     /\ r.processed[i].content.context_switches = 0
           /\ Len(WarningsOf(r, "session")) = Cardinality(unwritten)
           /\ LoopOver(r) => Len(r.processed) = Len(r.sessions)

\* a finished export without warnings in which the card fetch of a session
\* that has stored cards failed, and a later session was exported as well
C4_Witness ==
    \E p \in Procs :
        /\ Done(p)
        /\ run[p].outcome[1].warnings = <<>>
        /\ Len(run[p].processed) = 2
        /\ ~run[p].processed[1].cards_ok
        /\ db.cards[run[p].processed[1].session_id] # <<>>
        /\ Len(run[p].outcome[1].session_paths) = 2

(***************************************************************************)
(* C5, as claimed: a screenshot whose preparation failed is reported by a  *)
(* warning in the outcome's warning list.                                  *)
(***************************************************************************)
C5_Claimed ==
    \A p \in Procs :
        Done(p) =>
            \A i \in DOMAIN run[p].processed :
                (\E k \in DOMAIN run[p].processed[i].content.screenshots.lines :
                     run[p].processed[i].content.screenshots.lines[k].kind = "failed")
                    => \E w \in DOMAIN run[p].outcome[1].warnings :
                           run[p].outcome[1].warnings[w].session_id
                               = run[p].processed[i].session_id

(***************************************************************************)
(* C5, amended: a per-screenshot preparation failure (a missing source     *)
(* image, a failed copy) is caught locally and becomes a failure line that *)
(* takes the screenshot's place in the screenshots section of the session  *)
(* note; it adds nothing to the warning list, whose session warnings are   *)
(* exactly those of the failed note writes.                                *)
(***************************************************************************)
C5_ScreenshotFailureIsNoteLine ==
    \A p \in Procs :
        LET r == run[p]
            unwritten == {i \in DOMAIN r.processed : r.processed[i].written # "ok"}
        IN /\ \A i \in DOMAIN r.processed :
                 LET e == r.processed[i]
                     lines == e.content.screenshots.lines
                 IN /\ Len(lines) = Len(e.targets)
                    /\ \A k \in DOMAIN e.targets :
                          /\ lines[k].frame = e.targets[k]
                          /\ lines[k].kind = "failed"
                                <=> \/ e.targets[k] \notin db.images
                                    \/ config[p].export_mode = "copy" /\ e.copied[k] # "ok"
           /\ Len(r.warnings) = Len(WarningsOf(r, "session")) + Len(WarningsOf(r, "month_index"))
                  + Len(WarningsOf(r, "week_summary")) + Len(WarningsOf(r, "week_index"))
                  + Len(WarningsOf(r, "weekly_note")) + Len(WarningsOf(r, "overview"))
           /\ Len(WarningsOf(r, "session")) = Cardinality(unwritten)

\* a finished export without warnings whose session note, as written, holds a
\* failure line for a screenshot with a missing source image
C5_Witness ==
    \E p \in Procs :
        /\ Done(p)
        /\ run[p].outcome[1].warnings = <<>>
        /\ \E i \in DOMAIN run[p].processed :
              LET e == run[p].processed[i]
              IN /\ e.path \in DOMAIN fs
                 /\ fs[e.path] = <<e.content>>
                 /\ \E k \in DOMAIN e.targets :
                       /\ e.targets[k] \notin db.images
                       /\ e.content.screenshots.lines[k].kind = "failed"

(***************************************************************************)
(* C6: a missing source image fails only its own screenshot, in copy mode  *)
(* and in link mode: the section still has one line per selected frame,    *)
(* the other selected frame is prepared unless it fails itself, the        *)
(* session is exported exactly when its note write succeeds, and the       *)
(* session loop goes on.                                                   *)
(***************************************************************************)
C6_MissingImageIsLocal ==
    \A p \in Procs :
        LET r == run[p]
        IN \A i \in DOMAIN r.processed :
              LET e == r.processed[i]
                  lines == e.content.screenshots.lines
              IN (\E k \in DOMAIN e.targets : e.targets[k] \notin db.images) =>
                    /\ Len(lines) = Len(e.targets)
                    /\ \A j \in DOMAIN e.targets :
                          IF e.targets[j] \notin db.images THEN lines[j].kind = "failed"
                          ELSE IF config[p].export_mode = "link" THEN lines[j].kind = "linked"
                          ELSE IF e.copied[j] = "ok" THEN lines[j].kind = "copied"
                          ELSE lines[j].kind = "failed"
                    /\ e.written = "ok" =>
                          \E n \in DOMAIN r.session_paths : r.session_paths[n] = e.path
                    /\ r.pc = "sessions" \/ LoopOver(r)
                    /\ LoopOver(r) => Len(r.processed) = Len(r.sessions)

\* link mode: the first selected image is missing, the last one is linked, and
\* the session's path is in the outcome
C6_Witness ==
    \E p \in Procs :
        /\ Done(p)
        /\ config[p].export_mode = "link"
        /\ \E i \in DOMAIN run[p].processed :
              LET e == run[p].processed[i]
              IN /\ Len(e.targets) = 2
                 /\ e.targets[1] \notin db.images
                 /\ e.content.screenshots.lines[1].kind = "failed"
                 /\ e.content.screenshots.lines[2].kind = "linked"
                 /\ \E n \in DOMAIN run[p].outcome[1].session_paths :
                       run[p].outcome[1].session_paths[n] = e.path

(***************************************************************************)
(* C7, as claimed: two concurrent invocations for different dates write    *)
(* disjoint sets of file paths.                                            *)
(***************************************************************************)
C7_Claimed ==
    date[1] # date[2] => Touched(run[1]) \cap Touched(run[2]) = {}

(***************************************************************************)
(* C7, amended: two concurrent invocations for different dates write       *)
(* disjoint paths when their roots differ; under the same root only their  *)
(* date-scoped paths (Daily/<date>.md, Sessions/<date>/.., Assets/<date>/..)*)
(* are disjoint: a path both write is Index/overview.md, or the month      *)
(* index when the dates share a calendar month, or the week index or the   *)
(* weekly report when they share an ISO week; and once both have returned  *)
(* an outcome for calendar dates under one root, both have written         *)
(* Index/overview.md, which holds what the later writer put there.         *)
(***************************************************************************)
C7_OnlyIndexPathsShared ==
    date[1] # date[2] =>
        LET shared == Touched(run[1]) \cap Touched(run[2])
        IN /\ Root(1) # Root(2) => shared = {}
           /\ \A path \in shared :
                 /\ path.kind \in IndexKinds
                 /\ path.kind = "Index/sessions-<month>.md" =>
                        date[1][1] = date[2][1] /\ date[1][2] = date[2][2]
                 /\ path.kind \in {"Index/weeks-<week>.md", "Weekly/<week>.md"} =>
                        IsoWeek(date[1]) = IsoWeek(date[2])
           /\ (/\ Done(1) /\ Done(2) /\ Root(1) = Root(2)
               /\ parse_date_ok(date[1]) /\ parse_date_ok(date[2])) =>
                 /\ OverviewPath(Root(1)) \in shared
                 /\ \E p \in Procs :
                       fs[OverviewPath(Root(1))]
                           = <<run[p].generated[OverviewPath(Root(1))]>>

\* both invocations are over, for two dates of one month, under one root, and
\* the overview and the month index were written by both
C7_Witness ==
    /\ Done(1) /\ Done(2)
    /\ date[1] # date[2]
    /\ Root(1) = Root(2)
    /\ Touched(run[1]) \cap Touched(run[2])
           = {OverviewPath(Root(1)), MonthIndexPath(Root(1), date[1])}

(***************************************************************************)
(* C8: a fully successful invocation leaves every note of the export at    *)
(* its deterministic path holding exactly the document this invocation     *)
(* rendered for it, whatever earlier invocations (failed ones included)    *)
(* left there.                                                             *)
(***************************************************************************)
\* the note paths of an export of a calendar date, from date, config and storage
ExpectedNotes(p) ==
    {DailyNotePath(Root(p), date[p]),
     MonthIndexPath(Root(p), date[p]),
     WeekIndexPath(Root(p), IsoWeek(date[p])),
     WeeklyNotePath(Root(p), IsoWeek(date[p])),
     OverviewPath(Root(p))}
        \cup {SessionPath(SessionsDir(Root(p), date[p]), get_sessions_by_date(db, date[p])[i]) :
                 i \in DOMAIN get_sessions_by_date(db, date[p])}

C8_RerunReplaces ==
    \A p \in Procs :
        (Done(p) /\ run[p].outcome[1].warnings = <<>> /\ Alone(p)) =>
            /\ DOMAIN run[p].generated = ExpectedNotes(p)
            /\ \A path \in ExpectedNotes(p) :
                  /\ path \in DOMAIN fs
                  /\ fs[path] = <<run[p].generated[path]>>
            /\ {run[p].outcome[1].daily_note_path, run[p].outcome[1].index_note_path[1],
                run[p].outcome[1].week_index_path[1], run[p].outcome[1].weekly_note_path[1],
                run[p].outcome[1].overview_path[1]}
                   \cup Range(run[p].outcome[1].session_paths) = ExpectedNotes(p)

\* a fully successful second invocation after a first one that failed part-way
C8_Witness ==
    \E p \in Procs :
        /\ Done(p)
        /\ run[p].outcome[1].warnings = <<>>
        /\ history[p] # <<>>
        /\ history[p][1] \in {"fatal", "partial"}
        /\ run[p].session_paths # <<>>

(***************************************************************************)
(* C9: when build_week_summary fails, export_day appends exactly one       *)
(* warning for it, attempts neither the week index nor the weekly report   *)
(* (no path, no warning, no call), still attempts the overview index and   *)
(* returns an outcome.                                                     *)
(***************************************************************************)
C9_WeekSummaryFailure ==
    \A p \in Procs :
        LET r == run[p]
        IN (r.pc \in {"week_index", "weekly_note", "overview", "done"}
                /\ r.week_summary = None) =>
              /\ r.pc \in {"overview", "done"}
              /\ Len(WarningsOf(r, "week_summary")) = 1
              /\ r.week_index_path = None /\ r.weekly_note_path = None
              /\ WarningsOf(r, "week_index") = <<>> /\ WarningsOf(r, "weekly_note") = <<>>
              /\ Calls(r, "export_week_index_with_summary") = {}
              /\ Calls(r, "export_weekly_note_with_summary") = {}
              /\ WrittenKinds(r) \cap {"Index/weeks-<week>.md", "Weekly/<week>.md"} = {}
              /\ Done(p) =>
                    /\ Cardinality(Calls(r, "export_overview_index")) = 1
                    /\ r.outcome # None
                    /\ r.outcome[1].week_index_path = None
                    /\ r.outcome[1].weekly_note_path = None
                    /\ Len(WarningsOf(r.outcome[1], "week_summary")) = 1

\* the activities query of the week summary failed for a calendar date, and the
\* overview was written all the same
C9_Witness ==
    \E p \in Procs :
        /\ Done(p)
        /\ parse_date_ok(date[p])
        /\ run[p].week_summary = None
        /\ run[p].outcome[1].overview_path # None
        /\ run[p].outcome[1].warnings = <<Warning("week_summary", 0)>>

(***************************************************************************)
(* C10: when the week summary was built, the week index and the weekly     *)
(* report are each attempted exactly once, and each fails on its own: its  *)
(* path is absent exactly when it has its one warning, whatever became of  *)
(* the other.                                                              *)
(***************************************************************************)
C10_WeekArtifactsIndependent ==
    \A p \in Procs :
        LET r == run[p]
        IN (r.pc \in {"overview", "done"} /\ r.week_summary # None) =>
              /\ Cardinality(Calls(r, "export_week_index_with_summary")) = 1
              /\ Cardinality(Calls(r, "export_weekly_note_with_summary")) = 1
              /\ WarningsOf(r, "week_summary") = <<>>
              /\ IF r.week_index_path = None
                 THEN Len(WarningsOf(r, "week_index")) = 1
                 ELSE /\ WarningsOf(r, "week_index") = <<>>
                      /\ r.week_index_path[1]
                             = WeekIndexPath(Root(p), r.week_summary[1].week_label)
              /\ IF r.weekly_note_path = None
                 THEN Len(WarningsOf(r, "weekly_note")) = 1
                 ELSE /\ WarningsOf(r, "weekly_note") = <<>>
                      /\ r.weekly_note_path[1]
                             = WeeklyNotePath(Root(p), r.week_summary[1].week_label)
                      /\ Alone(p) =>
                            fs[r.weekly_note_path[1]] = <<r.generated[r.weekly_note_path[1]]>>

\* the week index failed and the weekly report was written and returned
C10_Witness ==
    \E p \in Procs :
        /\ Done(p)
        /\ run[p].outcome[1].week_index_path = None
        /\ run[p].outcome[1].weekly_note_path # None
        /\ run[p].outcome[1].warnings = <<Warning("week_index", 0)>>

\* the weekly report failed and the week index was written and returned
C10_WitnessVice ==
    \E p \in Procs :
        /\ Done(p)
        /\ run[p].outcome[1].week_index_path # None
        /\ run[p].outcome[1].weekly_note_path = None
        /\ run[p].outcome[1].warnings = <<Warning("weekly_note", 0)>>

(***************************************************************************)
(* C11: a failure of the month index is recoverable: past that step the    *)
(* month-index path is absent exactly when one month-index warning was     *)
(* appended, the daily-note path and the session paths already produced    *)
(* are what they were, the call is never aborted once the month index was  *)
(* attempted, and the week summary and the overview are still attempted.   *)
(***************************************************************************)
C11_MonthIndexRecoverable ==
    \A p \in Procs :
        LET r == run[p]
            exported == SelectSeq(r.processed, LAMBDA e : e.written = "ok")
        IN Calls(r, "export_month_index") # {} =>
              /\ r.pc \in {"week", "week_index", "weekly_note", "overview", "done"}
              /\ Cardinality(Calls(r, "export_month_index")) = 1
              /\ IF r.index_note_path = None
                 THEN Len(WarningsOf(r, "month_index")) = 1
                 ELSE /\ WarningsOf(r, "month_index") = <<>>
                      /\ r.index_note_path = Some(MonthIndexPath(Root(p), date[p]))
              /\ r.session_paths = [i \in 1..Len(exported) |-> exported[i].path]
              /\ DailyNotePath(Root(p), date[p]) \in DOMAIN r.generated
              /\ Alone(p) =>
                    fs[DailyNotePath(Root(p), date[p])]
                        = <<r.generated[DailyNotePath(Root(p), date[p])]>>
              /\ r.pc # "week" => Cardinality(Calls(r, "build_week_summary")) = 1
              /\ Done(p) =>
                    /\ Cardinality(Calls(r, "export_overview_index")) = 1
                    /\ r.outcome[1].index_note_path = r.index_note_path
                    /\ r.outcome[1].daily_note_path = DailyNotePath(Root(p), date[p])
                    /\ r.outcome[1].session_paths = r.session_paths
                    /\ Len(WarningsOf(r.outcome[1], "month_index"))
                           = Len(WarningsOf(r, "month_index"))

\* the month index of a calendar date failed (its write, its directory or its
\* query) after a session was exported, and the week artifacts and the overview
\* were written all the same
C11_Witness ==
    \E p \in Procs :
        /\ Done(p)
        /\ parse_date_ok(date[p])
        /\ run[p].outcome[1].index_note_path = None
        /\ run[p].outcome[1].warnings = <<Warning("month_index", 0)>>
        /\ run[p].outcome[1].session_paths # <<>>
        /\ run[p].outcome[1].weekly_note_path # None
        /\ run[p].outcome[1].overview_path # None

C12_WitnessEmpty ==
    \E p \in Procs :
        /\ Done(p)
        /\ run[p].sessions = <<>>
        /\ fs[DailyNotePath(Root(p), date[p])][1].session_list.marker = "no_sessions"
        /\ fs[DailyNotePath(Root(p), date[p])][1].date = date[p]
        /\ run[p].outcome[1].session_paths = <<>>

(***************************************************************************)
(* WeekFocusMetrics on its own: cards are added one by one (add_card) or   *)
(* as a list (add_cards) to a default WeekFocusMetrics, under each score   *)
(* configuration.                                                          *)
(*   bench.metrics  the accumulator                                        *)
(*   bench.before   the accumulator before the last call                   *)
(*   bench.added    the cards the last call was given                      *)
(*   bench.count    the cards given so far                                 *)
(***************************************************************************)
MaxCards == 3

\* the values of weekly_focus_weight (a non-negative integer, 0 to 100 by the
\* configuration surface; 150 is there for the cap) and weekly_target_minutes
WeeklyFocusWeights == {0, 70, 100, 150}

WeeklyTargets == {0 - 5, 0, 60, 300}

FocusConfigs ==
    {[CfgPlain EXCEPT !.weekly_focus_weight = w, !.weekly_target_minutes = t] :
        w \in WeeklyFocusWeights, t \in WeeklyTargets}

\* one label per bucket, and cards of 45 and 210 minutes
FocusLabels == {"Work", "RESEARCH", "meeting", "Personal", "break", ""}

\* ... with a card whose start does not parse, one that ends before it starts,
\* one of 59 seconds, and 45 minutes under further aliases and an unknown label
FocusCards ==
    {Card(label, Some(0), Some(60 * m)) : label \in FocusLabels, m \in {45, 210}}
        \cup {Card("Work", None, Some(600)), Card("wOrK", Some(600), Some(0)),
              Card("idle", Some(0), Some(59))}
        \cup {Card(label, Some(0), Some(60 * 45)) :
                  label \in {"COMMUNICATION", "Learning", "IDLE", "Gaming"}}

FocusCardLists ==
    {<<>>}
        \cup {<<a, b>> : a, b \in {Card("Work", Some(0), Some(60 * 210)),
                                   Card("break", Some(0), Some(60 * 45)),
                                   Card("Work", None, Some(600))}}

FocusBench ==
    [kind |-> "focus", metrics |-> DefaultFocusMetrics, before |-> DefaultFocusMetrics,
     added |-> <<>>, count |-> 0]

\* metrics.add_card(card)
AddCard ==
    /\ bench.count < MaxCards
    /\ \E card \in FocusCards :
          bench' = [bench EXCEPT !.metrics = add_card(@, card),
                                 !.before = bench.metrics,
                                 !.added = <<card>>,
                                 !.count = @ + 1]
    /\ UNCHANGED <<config, date, db, fs, dirs, clock, faults, budget, run, history>>

\* metrics.add_cards(cards)
AddCards ==
    /\ \E cards \in FocusCardLists :
          /\ bench.count + Len(cards) <= MaxCards
          /\ bench' = [bench EXCEPT !.metrics = add_cards(@, cards),
                                    !.before = bench.metrics,
                                    !.added = cards,
                                    !.count = @ + Len(cards)]
    /\ UNCHANGED <<config, date, db, fs, dirs, clock, faults, budget, run, history>>

InitFocus ==
    /\ Quiet
    /\ db = WorldOne
    /\ config \in {c \in [Procs -> FocusConfigs \cup {CfgCopy}] :
                      c[1] \in FocusConfigs /\ c[2] = CfgCopy}
    /\ date = [p \in Procs |-> DMon]
    /\ faults = 0
    /\ budget = [p \in Procs |-> 0]
    /\ bench = FocusBench

NextFocus == AddCard \/ AddCards

SpecFocus == InitFocus /\ [][NextFocus]_vars

(***************************************************************************)
(* C13: after any sequence of add_card and add_cards calls on a default    *)
(* WeekFocusMetrics, the six bucket totals and total_minutes are           *)
(* non-negative and focus_minutes + distraction_minutes +                  *)
(* communication_minutes = total_minutes, with focus = work + learning and *)
(* distraction = personal + idle + other.                                  *)
(***************************************************************************)
C13_BucketsSumToTotal ==
    LET m == bench.metrics
    IN /\ \A f \in DOMAIN m : m[f] >= 0
       /\ focus_minutes(m) = m.work_minutes + m.learning_minutes
       /\ distraction_minutes(m) = m.personal_minutes + m.idle_minutes + m.other_minutes
       /\ focus_minutes(m) + distraction_minutes(m) + m.communication_minutes
              = m.total_minutes

\* three cards were added, the last one to "other", and the focus, distraction
\* and communication minutes are all positive
C13_Witness ==
    /\ bench.count = 3
    /\ focus_minutes(bench.metrics) > 0
    /\ bench.metrics.communication_minutes > 0
    /\ bench.metrics.other_minutes > bench.before.other_minutes

(***************************************************************************)
(* C14: for every WeekFocusMetrics reached by accumulation and every score *)
(* configuration build_week_summary builds, focus_ratio, distraction_ratio,*)
(* focus_score, effort_score and productivity_score are integers in        *)
(* 0..100, and focus_ratio + distraction_ratio <= 100.                     *)
(***************************************************************************)
C14_ScoresInRange ==
    LET m == bench.metrics
        score == ScoreConfigOf(config[1])
    IN /\ focus_ratio(m) \in 0..100
       /\ distraction_ratio(m) \in 0..100
       /\ focus_score(m) \in 0..100
       /\ effort_score(m, score.target_minutes) \in 0..100
       /\ productivity_score(m, score.focus_weight, score.effort_weight,
                             score.target_minutes) \in 0..100
       /\ focus_ratio(m) + distraction_ratio(m) <= 100

\* 45 minutes of each of focus, communication and distraction under weights
\* 70/30 and a target of 60 minutes: the ratios are 33 and 33, the effort score
\* is capped at 100 and the productivity score lies strictly between 0 and 100
C14_Witness ==
    /\ config[1].weekly_focus_weight = 70
    /\ config[1].weekly_target_minutes = 60
    /\ bench.metrics.total_minutes = 135
    /\ focus_ratio(bench.metrics) = 33
    /\ distraction_ratio(bench.metrics) = 33
    /\ effort_score(bench.metrics, 60) = 100
    /\ productivity_score(bench.metrics, 70, 30, 60) = 53

(***************************************************************************)
(* C15: the score configuration build_week_summary builds has focus_weight *)
(* in 0..100, effort_weight = 100 - focus_weight (the two sum to 100) and  *)
(* target_minutes >= 1, for every configuration.                           *)
(***************************************************************************)
C15_ScoreConfigWeights ==
    \A p \in Procs :
        run[p].week_summary # None =>
            LET score == run[p].week_summary[1].score_config
            IN /\ score.focus_weight \in 0..100
               /\ score.effort_weight = 100 - score.focus_weight
               /\ score.focus_weight + score.effort_weight = 100
               /\ score.target_minutes >= 1
               /\ score.focus_weight
                      = (IF config[p].weekly_focus_weight > 100 THEN 100
                         ELSE config[p].weekly_focus_weight)
               /\ score.target_minutes
                      = (IF config[p].weekly_target_minutes < 1 THEN 1
                         ELSE config[p].weekly_target_minutes)

\* a week summary was built under a configuration with a weight above 100 and
\* a target below 1
C15_Witness ==
    \E p \in Procs :
        /\ run[p].week_summary # None
        /\ config[p].weekly_focus_weight > 100
        /\ config[p].weekly_target_minutes < 1
        /\ run[p].week_summary[1].score_config
               = [focus_weight |-> 100, effort_weight |-> 0, target_minutes |-> 1]

(***************************************************************************)
(* C16: productivity_score = floor((focus_score * focus_weight +           *)
(* effort_score * effort_weight) / max(1, focus_weight + effort_weight))   *)
(* with focus_score = focus_ratio; for weights 70/30, target 300, total    *)
(* 300 and focus 210 it is 79.                                             *)
(***************************************************************************)
\* weights productivity_score is evaluated at, beside the configured ones
WeightSamples == {0, 30, 70, 100}

C16_ProductivityFormula ==
    LET m == bench.metrics
        score == ScoreConfigOf(config[1])
        t == score.target_minutes
    IN /\ focus_score(m) = focus_ratio(m)
       /\ \A fw \in WeightSamples \cup {score.focus_weight},
             ew \in WeightSamples \cup {score.effort_weight} :
             productivity_score(m, fw, ew, t)
                 = (focus_ratio(m) * fw + effort_score(m, t) * ew)
                       \div (IF fw + ew >= 1 THEN fw + ew ELSE 1)
       /\ (/\ score.focus_weight = 70 /\ score.effort_weight = 30 /\ t = 300
           /\ m.total_minutes = 300 /\ focus_minutes(m) = 210) =>
              /\ focus_ratio(m) = 70
              /\ effort_score(m, t) = 100
              /\ productivity_score(m, 70, 30, 300) = 79

\* the example: 210 minutes of work and twice 45 minutes of something else,
\* under weights 70/30 and a target of 300 minutes
C16_Witness ==
    /\ ScoreConfigOf(config[1])
           = [focus_weight |-> 70, effort_weight |-> 30, target_minutes |-> 300]
    /\ bench.metrics.total_minutes = 300
    /\ focus_minutes(bench.metrics) = 210
    /\ productivity_score(bench.metrics, 70, 30, 300) = 79

(***************************************************************************)
(* C17: for a fixed target_minutes, effort_score never decreases when      *)
(* cards are added (total_minutes only grows), never exceeds 100, and is 0 *)
(* when total_minutes is 0 or target_minutes <= 0.                         *)
(***************************************************************************)
C17_EffortMonotone ==
    \A t \in WeeklyTargets \cup {ScoreConfigOf(config[1]).target_minutes} :
        /\ bench.before.total_minutes <= bench.metrics.total_minutes
        /\ effort_score(bench.before, t) <= effort_score(bench.metrics, t)
        /\ effort_score(bench.metrics, t) <= 100
        /\ (bench.metrics.total_minutes = 0 \/ t <= 0) => effort_score(bench.metrics, t) = 0

\* a card took the effort score for 300 minutes from 15 to 85, a further card
\* would take the quotient above 100, and the configured target is not positive
C17_Witness ==
    /\ config[1].weekly_target_minutes <= 0
    /\ effort_score(bench.before, 300) = 15
    /\ effort_score(bench.metrics, 300) = 85
    /\ effort_score(add_card(bench.metrics, Card("Work", Some(0), Some(60 * 210))), 300) = 100
    /\ effort_score(bench.metrics, config[1].weekly_target_minutes) = 0

(***************************************************************************)
(* render_template on its own, as render_session_note calls it: the user   *)
(* template of the configuration, the default document computed from the   *)
(* session, and the mapping from placeholder names to texts.  Texts are    *)
(* sequences of characters; the names date, title and summary are written  *)
(* d, t and s, and u is a name the mapping does not have.                  *)
(*   bench.template  config.session_template                               *)
(*   bench.title, bench.summary  the texts of the session                  *)
(*   bench.output    what render_session_note returned, once it has        *)
(***************************************************************************)
MaxTokens == 3

\* format!("{{{{{}}}}}", key)
Placeholder(key) == <<"{", "{">> \o key \o <<"}", "}">>

\* a mutant of Replace: only the first occurrence is replaced
ReplaceFirst(content, placeholder, value) ==
    IF \E i \in 1..(Len(content) - Len(placeholder) + 1) :
           SubSeq(content, i, i + Len(placeholder) - 1) = placeholder
    THEN LET i == CHOOSE j \in 1..(Len(content) - Len(placeholder) + 1) :
                      /\ SubSeq(content, j, j + Len(placeholder) - 1) = placeholder
                      /\ \A k \in 1..(j - 1) :
                            SubSeq(content, k, k + Len(placeholder) - 1) # placeholder
         IN SubSeq(content, 1, i - 1) \o value
                \o SubSeq(content, i + Len(placeholder), Len(content))
    ELSE content

RECURSIVE Replace(_, _, _)
\* str::replace: every non-overlapping occurrence, found from left to right
Replace(content, placeholder, value) ==
    IF Len(content) < Len(placeholder) THEN content
    ELSE IF SubSeq(content, 1, Len(placeholder)) = placeholder
         THEN value \o Replace(SubSeq(content, Len(placeholder) + 1, Len(content)),
                               placeholder, value)
         ELSE <<Head(content)>> \o Replace(Tail(content), placeholder, value)

RECURSIVE ReplaceEach(_, _)
\* the loop of render_template over the (key, value) pairs, in their order
ReplaceEach(content, values) ==
    IF values = <<>> THEN content
    ELSE ReplaceEach(Replace(content, Placeholder(values[1].key), values[1].value),
                     Tail(values))

render_template(template, fallback, values) ==
    ReplaceEach(IF template = None THEN fallback ELSE template[1], values)

\* a mutant of UserTemplate: a blank template is used like any other
UserTemplateUnfiltered(configured) == configured

\* config.session_template.as_deref().filter(|t| !t.trim().is_empty())
UserTemplate(configured) ==
    IF configured # None /\ Trim(configured[1]) # <<>> THEN configured ELSE None

\* the mapping render_session_note passes, in its order: date, title, summary
SessionValues(title, summary) ==
    <<[key |-> <<"d">>, value |-> <<"9">>],
      [key |-> <<"t">>, value |-> title],
      [key |-> <<"s">>, value |-> summary]>>

\* the default session document, computed with format! from the same texts
DefaultSessionTemplate(title, summary) ==
    <<"d", ":">> \o <<"9">> \o <<"\n", "#">> \o title \o <<"\n">> \o summary

\* render_session_note, as far as its template goes
SessionDocument(configured, title, summary) ==
    render_template(UserTemplate(configured), DefaultSessionTemplate(title, summary),
                    SessionValues(title, summary))

\* the pieces user templates are made of
TemplateTokens ==
    {Placeholder(<<"t">>), Placeholder(<<"s">>), Placeholder(<<"u">>),
     <<"{", "{">>, <<"}", "}">>, <<"t">>, <<"x">>, <<" ">>}

RECURSIVE TemplatesOf(_)
\* the texts of at most n pieces
TemplatesOf(n) ==
    IF n = 0 THEN {<<>>}
    ELSE LET shorter == TemplatesOf(n - 1)
         IN shorter \cup {text \o token : text \in shorter, token \in TemplateTokens}

\* session titles and summaries: plain, equal to a name, carrying a marker
TitleTexts == {<<"x">>, <<"s">>, Placeholder(<<"s">>), Placeholder(<<"d">>)}

SessionSummaryTexts == {<<"y">>, Placeholder(<<"t">>)}

RenderSessionNote ==
    /\ bench.output = None
    /\ bench' = [bench EXCEPT !.output =
                    Some(SessionDocument(bench.template, bench.title, bench.summary))]
    /\ UNCHANGED <<config, date, db, fs, dirs, clock, faults, budget, run, history>>

InitTemplate ==
    /\ Quiet
    /\ db = WorldOne
    /\ config = [p \in Procs |-> CfgCopy]
    /\ date = [p \in Procs |-> DMon]
    /\ faults = 0
    /\ budget = [p \in Procs |-> 0]
    /\ \E configured \in {None} \cup {Some(text) : text \in TemplatesOf(MaxTokens)},
          title \in TitleTexts, summary \in SessionSummaryTexts :
          bench = [kind |-> "template", template |-> configured, title |-> title,
                   summary |-> summary, output |-> None]

NextTemplate == RenderSessionNote

SpecTemplate == InitTemplate /\ [][NextTemplate]_vars

(***************************************************************************)
(* Vocabulary of the properties of templates.                              *)
(***************************************************************************)
\* the positions of text where pattern occurs
Occurrences(text, pattern) ==
    {i \in 1..(Len(text) - Len(pattern) + 1) :
        SubSeq(text, i, i + Len(pattern) - 1) = pattern}

\* the pairs of values whose marker starts text
MarkersAt(text, values) ==
    {i \in DOMAIN values :
        /\ Len(text) >= Len(Placeholder(values[i].key))
        /\ SubSeq(text, 1, Len(Placeholder(values[i].key))) = Placeholder(values[i].key)}

RECURSIVE Substitute(_, _)
\* text read once from left to right, each marker of a name of the mapping
\* giving way to the value of that name
Substitute(text, values) ==
    IF text = <<>> THEN <<>>
    ELSE IF MarkersAt(text, values) # {}
         THEN LET i == CHOOSE j \in MarkersAt(text, values) : TRUE
              IN values[i].value
                     \o Substitute(SubSeq(text, Len(Placeholder(values[i].key)) + 1,
                                          Len(text)), values)
         ELSE <<Head(text)>> \o Substitute(Tail(text), values)

\* no marker of a name of the mapping occurs in text
Settled(text, values) ==
    \A i \in DOMAIN values : Occurrences(text, Placeholder(values[i].key)) = {}

(***************************************************************************)
(* C18: the session document is rendered from the user template when one   *)
(* is configured and is not blank, and from the computed default           *)
(* otherwise; every marker {{name}} of a name of the mapping gives way to  *)
(* the value of that name (the result is the template with its markers     *)
(* substituted, whenever that text has no marker left in it), and every    *)
(* marker of a name the mapping does not have stays as it is; the template *)
(* {{title}}{{unknown_key}} gives the title followed by {{unknown_key}}.   *)
(***************************************************************************)
C18_TemplateSubstitution ==
    bench.output # None =>
        LET values == SessionValues(bench.title, bench.summary)
            blank == \/ bench.template = None
                     \/ \A i \in DOMAIN bench.template[1] : bench.template[1][i] = " "
            chosen == IF blank THEN DefaultSessionTemplate(bench.title, bench.summary)
                      ELSE bench.template[1]
            out == bench.output[1]
        IN /\ Settled(Substitute(chosen, values), values) =>
                  out = Substitute(chosen, values)
           /\ Cardinality(Occurrences(out, Placeholder(<<"u">>)))
                  = Cardinality(Occurrences(chosen, Placeholder(<<"u">>)))
           /\ (/\ bench.template = Some(Placeholder(<<"t">>) \o Placeholder(<<"u">>))
               /\ Settled(bench.title, values)) =>
                  out = bench.title \o Placeholder(<<"u">>)

\* the template {{t}}{{u}} was rendered for the title x
C18_Witness ==
    /\ bench.template = Some(Placeholder(<<"t">>) \o Placeholder(<<"u">>))
    /\ bench.title = <<"x">>
    /\ bench.output = Some(<<"x", "{", "{", "u", "}", "}">>)

\* a blank template was configured and the default document was rendered
C18_WitnessBlank ==
    /\ bench.template = Some(<<" ", " ">>)
    /\ bench.title = <<"x">>
    /\ bench.summary = <<"y">>
    /\ bench.output = Some(DefaultSessionTemplate(<<"x">>, <<"y">>))

(***************************************************************************)
(* C19: when the week's total_minutes is 0, the week index and the weekly  *)
(* report both carry the "no focus data" marker where the focus metrics    *)
(* would be, and every ratio and score computed for them is 0 (no division *)
(* by the zero total takes place).                                         *)
(***************************************************************************)
C19_NoFocusData ==
    \A p \in Procs :
        run[p].week_summary # None =>
            LET summary == run[p].week_summary[1]
                label == summary.week_label
            IN \A path \in {WeekIndexPath(Root(p), label), WeeklyNotePath(Root(p), label)}
                              \cap DOMAIN run[p].generated :
                  LET doc == run[p].generated[path]
                  IN /\ doc.summary.focus_metrics = summary.focus_metrics
                     /\ IF summary.focus_metrics.total_minutes = 0
                        THEN /\ doc.focus_summary = [marker |-> "no_focus_data"]
                             /\ doc.front_matter.focus_ratio = 0
                             /\ doc.front_matter.distraction_ratio = 0
                             /\ doc.front_matter.focus_score = 0
                             /\ doc.front_matter.effort_score = 0
                             /\ doc.front_matter.productivity_score = 0
                             /\ doc.front_matter.focus_minutes = 0
                             /\ doc.front_matter.distraction_minutes = 0
                             /\ doc.front_matter.communication_minutes = 0
                        ELSE doc.focus_summary.marker = "focus"

\* a week without a minute of cards: both documents were written and both on
\* disk carry the marker
C19_Witness ==
    \E p \in Procs :
        /\ Done(p)
        /\ run[p].week_summary # None
        /\ run[p].week_summary[1].focus_metrics.total_minutes = 0
        /\ run[p].week_index_path # None
        /\ run[p].weekly_note_path # None
        /\ fs[run[p].week_index_path[1]][1].focus_summary = [marker |-> "no_focus_data"]
        /\ fs[run[p].weekly_note_path[1]][1].focus_summary = [marker |-> "no_focus_data"]

\* a week with cards: the documents carry the metric lines
C19_WitnessFocus ==
    \E p \in Procs :
        /\ Done(p)
        /\ run[p].weekly_note_path # None
        /\ fs[run[p].weekly_note_path[1]][1].focus_summary.marker = "focus"

(***************************************************************************)
(* build_session_metrics and render_metrics on their own, as               *)
(* export_session calls them on the timeline cards of a session.           *)
(*   bench.cards     the timeline cards, in order                          *)
(*   bench.duration  duration_minutes                                      *)
(*   bench.metrics   build_session_metrics(cards, duration)                *)
(*   bench.text      render_metrics(metrics)                               *)
(***************************************************************************)
MaxTimeline == 5

SessionLabels == {"Work", "work", "idle", ""}

DurationSamples == {0 - 7, 0, 31, 90}

\* the metrics and their text for a timeline
SessionBench(cards, duration) ==
    [kind |-> "session", cards |-> cards, duration |-> duration,
     metrics |-> build_session_metrics(cards, duration),
     text |-> render_metrics(build_session_metrics(cards, duration))]

\* the session has one more card
ExtendTimeline ==
    /\ Len(bench.cards) < MaxTimeline
    /\ \E label \in SessionLabels :
          bench' = SessionBench(Append(bench.cards, Card(label, None, None)),
                                bench.duration)
    /\ UNCHANGED <<config, date, db, fs, dirs, clock, faults, budget, run, history>>

InitSession ==
    /\ Quiet
    /\ db = WorldOne
    /\ config = [p \in Procs |-> CfgCopy]
    /\ date = [p \in Procs |-> DMon]
    /\ faults = 0
    /\ budget = [p \in Procs |-> 0]
    /\ \E duration \in DurationSamples : bench = SessionBench(<<>>, duration)

NextSession == ExtendTimeline

SpecSession == InitSession /\ [][NextSession]_vars

(***************************************************************************)
(* C20: build_session_metrics counts as context switches the adjacent      *)
(* pairs of cards whose lower-cased categories differ (the first card      *)
(* starts none), maps 0-1 switches to "low", 2-3 to "medium" and 4 or more *)
(* to "high", and sets avg_segment_minutes to max(0, duration / cards), or *)
(* 0 without cards; an empty list gives 0 cards, 0 switches, "low", and    *)
(* render_metrics then gives the "no metrics" marker, not zero-filled text.*)
(***************************************************************************)
C20_SessionMetrics ==
    LET cards == bench.cards
        m == bench.metrics
        pairs == {i \in 2..Len(cards) :
                     to_lowercase(cards[i - 1].category) # to_lowercase(cards[i].category)}
    IN /\ m.timeline_cards = Len(cards)
       /\ m.context_switches = Cardinality(pairs)
       /\ m.context_switches <= Max2(Len(cards) - 1, 0)
       /\ m.fragmentation_level
              = (CASE m.context_switches \in 0..1 -> "low"
                   [] m.context_switches \in 2..3 -> "medium"
                   [] OTHER -> "high")
       /\ m.avg_segment_minutes
              = (IF cards = <<>> \/ bench.duration <= 0 THEN 0
                 ELSE bench.duration \div Len(cards))
       /\ IF cards = <<>>
          THEN /\ m = [timeline_cards |-> 0, context_switches |-> 0,
                       avg_segment_minutes |-> 0, fragmentation_level |-> "low"]
               /\ bench.text = [marker |-> "no_metrics"]
          ELSE bench.text = [marker |-> "metrics", cards |-> Len(cards),
                             switches |-> Cardinality(pairs),
                             avg |-> m.avg_segment_minutes,
                             level |-> m.fragmentation_level]

\* five cards Work, work, idle, work, idle over 31 minutes: the change of case
\* is no switch, three switches give "medium", and the average is 6 minutes
C20_Witness ==
    /\ Len(bench.cards) = 5
    /\ [i \in 1..5 |-> bench.cards[i].category] = <<"Work", "work", "idle", "work", "idle">>
    /\ bench.duration = 31
    /\ bench.metrics = [timeline_cards |-> 5, context_switches |-> 3,
                        avg_segment_minutes |-> 6, fragmentation_level |-> "medium"]

\* four switches give "high"
C20_WitnessHigh ==
    /\ bench.metrics.context_switches = 4
    /\ bench.metrics.fragmentation_level = "high"
    /\ bench.text.marker = "metrics"

(***************************************************************************)
(* pick_screenshots on its own, as render_screenshots calls it on the      *)
(* frames of a session, followed by the lines rendered for its result.     *)
(*   bench.frames    the frames of the session, in order, by file_path     *)
(*   bench.selected  pick_screenshots(frames)                              *)
(*   bench.lines     the screenshot lines rendered for the selected frames *)
(***************************************************************************)
MaxFrames == 4

FramePaths == {"a.jpg", "b.jpg", "c.jpg"}

\* the selection and its rendered lines for a frame list, every file present
ShotsBench(frames) ==
    LET targets == pick_screenshots(frames)
    IN [kind |-> "shots", frames |-> frames, selected |-> targets,
        lines |-> render_screenshots(CfgLink, FramePaths, targets,
                                     [i \in 1..Len(targets) |-> "ok"]).lines]

\* the session has one more frame
ExtendFrames ==
    /\ Len(bench.frames) < MaxFrames
    /\ \E path \in FramePaths : bench' = ShotsBench(Append(bench.frames, path))
    /\ UNCHANGED <<config, date, db, fs, dirs, clock, faults, budget, run, history>>

InitShots ==
    /\ Quiet
    /\ db = WorldOne
    /\ config = [p \in Procs |-> CfgLink]
    /\ date = [p \in Procs |-> DMon]
    /\ faults = 0
    /\ budget = [p \in Procs |-> 0]
    /\ bench = ShotsBench(<<>>)

NextShots == ExtendFrames

SpecShots == InitShots /\ [][NextShots]_vars

(***************************************************************************)
(* C21: pick_screenshots returns at most two frames: nothing for an empty  *)
(* list, the single frame of a one-element list, and otherwise the first   *)
(* frame followed by the last, or the first alone when both have the same  *)
(* file path; no frame in between is selected or rendered.                 *)
(***************************************************************************)
C21_PickScreenshots ==
    LET frames == bench.frames
        n == Len(frames)
        selected == bench.selected
    IN /\ Len(selected) <= 2
       /\ n = 0 => selected = <<>>
       /\ n = 1 => selected = frames
       /\ (n >= 2 /\ frames[1] # frames[n]) => selected = <<frames[1], frames[n]>>
       /\ (n >= 2 /\ frames[1] = frames[n]) => selected = <<frames[1]>>
       /\ Len(bench.lines) = Len(selected)
       /\ \A i \in DOMAIN bench.lines :
             /\ bench.lines[i].frame = selected[i]
             /\ bench.lines[i].frame \in {frames[1], frames[n]}

\* four frames a, b, c, a: the last has the path of the first, so the first
\* alone is selected, and neither b nor c
C21_Witness ==
    /\ bench.frames = <<"a.jpg", "b.jpg", "c.jpg", "a.jpg">>
    /\ bench.selected = <<"a.jpg">>
    /\ Len(bench.lines) = 1

\* three different frames: the first and the last, not the one in between
C21_WitnessPair ==
    /\ bench.frames = <<"a.jpg", "b.jpg", "c.jpg">>
    /\ bench.selected = <<"a.jpg", "c.jpg">>

(***************************************************************************)
(* C22: build_week_summary uses the seven days Monday..Sunday of the ISO   *)
(* week of the date (week_start <= date <= week_end, week_end = week_start *)
(* + 6 days) and gives exactly seven highlight lines, one per day in       *)
(* ascending order, each linking that day's note and carrying the excerpt  *)
(* of its stored day summary, or the "no summary" placeholder when there   *)
(* is none or its fetch failed; such a failure never fails the summary.    *)
(***************************************************************************)
C22_WeekRangeAndHighlights ==
    \A p \in Procs :
        run[p].week_summary # None =>
            LET summary == run[p].week_summary[1]
                first == DaysFromCivil(summary.week_start)
                last == DaysFromCivil(summary.week_end)
                lines == summary.daily_highlights
            IN /\ parse_date_ok(date[p])
               /\ WeekdayFromMonday(summary.week_start) = 0
               /\ WeekdayFromMonday(summary.week_end) = 6
               /\ last = first + 6
               /\ first <= DaysFromCivil(date[p])
               /\ DaysFromCivil(date[p]) <= last
               /\ summary.week_label = IsoWeek(date[p])
               /\ IsoWeek(summary.week_start) = IsoWeek(summary.week_end)
               /\ Len(lines) = 7
               /\ \A i \in 1..7 :
                     /\ DaysFromCivil(lines[i].link) = first + i - 1
                     /\ IF lines[i].text.marker = "excerpt"
                        THEN /\ lines[i].link \in DOMAIN db.summaries
                             /\ lines[i].text.text
                                    = compact_summary_text(db.summaries[lines[i].link], 140)
                        ELSE lines[i].text = [marker |-> "no_summary", text |-> <<>>]
                     /\ lines[i].link \notin DOMAIN db.summaries
                            => lines[i].text.marker = "no_summary"

\* the week of Wednesday 2025-01-01 runs from Monday 2024-12-30 to Sunday
\* 2025-01-05; Monday's line carries its stored summary with the line break
\* turned into a space, Wednesday's the placeholder
C22_Witness ==
    \E p \in Procs :
        /\ date[p] = DWed
        /\ db = WorldOne
        /\ run[p].week_summary # None
        /\ run[p].week_summary[1].week_start = DMon
        /\ run[p].week_summary[1].week_end = <<2025, 1, 5>>
        /\ run[p].week_summary[1].daily_highlights[1]
               = [link |-> DMon, text |-> [marker |-> "excerpt", text |-> <<"m", " ", "o">>]]
        /\ run[p].week_summary[1].daily_highlights[3]
               = [link |-> DWed, text |-> [marker |-> "no_summary", text |-> <<>>]]

\* the fetch of a stored day summary failed: its line carries the placeholder
\* and the week summary is there
C22_WitnessFailedFetch ==
    \E p \in Procs :
        /\ run[p].week_summary # None
        /\ \E i \in 1..7 :
              LET line == run[p].week_summary[1].daily_highlights[i]
              IN /\ line.link \in DOMAIN db.summaries
                 /\ line.text.marker = "no_summary"

(***************************************************************************)
(* C23: add_card on a card of positive minutes adds exactly these minutes  *)
(* to total_minutes and to exactly one bucket, the one of the              *)
(* case-insensitive classifier (work; communication or meeting; learning   *)
(* or research; personal; idle or break; anything else, the empty label    *)
(* included, to other), and leaves the other five buckets as they were; a  *)
(* card of zero, negative or unparsable duration changes nothing.          *)
(***************************************************************************)
C23_AddCardFrame ==
    Len(bench.added) = 1 =>
        LET card == bench.added[1]
            label == card.category
            seconds == IF card.start_time = None \/ card.end_time = None THEN 0
                       ELSE card.end_time[1] - card.start_time[1]
            minutes == IF seconds < 60 THEN 0 ELSE seconds \div 60
            bucket ==
                CASE label \in {"work", "Work", "WORK", "wOrK"} -> "work_minutes"
                  [] label \in {"communication", "COMMUNICATION", "meeting", "Meeting"}
                         -> "communication_minutes"
                  [] label \in {"learning", "Learning", "research", "RESEARCH"}
                         -> "learning_minutes"
                  [] label \in {"personal", "Personal"} -> "personal_minutes"
                  [] label \in {"idle", "IDLE", "break", "Break"} -> "idle_minutes"
                  [] OTHER -> "other_minutes"
        IN IF minutes > 0
           THEN bench.metrics = [bench.before EXCEPT !.total_minutes = @ + minutes,
                                                     ![bucket] = @ + minutes]
           ELSE bench.metrics = bench.before

\* 45 minutes of "RESEARCH" after other cards: the total and the learning
\* bucket grow by 45 and nothing else moves
C23_Witness ==
    /\ bench.added = <<Card("RESEARCH", Some(0), Some(60 * 45))>>
    /\ bench.before.total_minutes > 0
    /\ bench.before.idle_minutes > 0
    /\ bench.metrics = [bench.before EXCEPT !.total_minutes = @ + 45,
                                            !.learning_minutes = @ + 45]

\* cards that end before they start, have no readable start, or last 59
\* seconds leave the metrics as they were
C23_WitnessSkipped ==
    /\ bench.added \in {<<Card("wOrK", Some(600), Some(0))>>,
                        <<Card("Work", None, Some(600))>>,
                        <<Card("idle", Some(0), Some(59))>>}
    /\ bench.before.total_minutes > 0
    /\ bench.metrics = bench.before

\* an unknown label and an upper-case alias
C23_WitnessOther ==
    /\ bench.added = <<Card("Gaming", Some(0), Some(60 * 45))>>
    /\ bench.before.communication_minutes = 45
    /\ bench.metrics.other_minutes = bench.before.other_minutes + 45
    /\ bench.metrics.communication_minutes = 45

(***************************************************************************)
(* C24: for every successfully exported session, the link recorded for it  *)
(* in the daily note, Sessions/<d>/<filename>, designates the place where  *)
(* its note was written: <d> is the export date of the Sessions/<date>     *)
(* directory and <filename> is the name of the written file.               *)
(***************************************************************************)
C24_LinkDesignatesWrittenNote ==
    \A p \in Procs :
        LET r == run[p]
        IN /\ Len(r.session_links) = Len(r.session_paths)
           /\ \A k \in DOMAIN r.session_links :
                 /\ r.session_links[k].dir = date[p]
                 /\ r.session_paths[k]
                        = PathOf(Root(p), "Sessions/<date>/<start>_<hm>-<hm>_session-<id>.md",
                                 r.session_links[k].dir \o r.session_links[k].file)

\* every brace of text belongs to a marker {{d}}, {{t}}, {{s}} or {{u}}
NoLooseBrace(text) ==
    LET names == <<[key |-> <<"d">>, value |-> <<>>], [key |-> <<"t">>, value |-> <<>>],
                   [key |-> <<"s">>, value |-> <<>>], [key |-> <<"u">>, value |-> <<>>]>>
        rest == Substitute(text, names)
    IN \A i \in DOMAIN rest : rest[i] \notin {"{", "}"}

(***************************************************************************)
(* C25: substitution is single-pass with respect to data: a value is put   *)
(* in verbatim, so a marker {{name}} inside substituted data (a session    *)
(* title carrying {{s}} or {{d}}, say) is not itself replaced, with a user *)
(* template and with the default template alike.                           *)
(***************************************************************************)
C25_SinglePassOverData ==
    bench.output # None =>
        LET values == SessionValues(bench.title, bench.summary)
            blank == \/ bench.template = None
                     \/ \A i \in DOMAIN bench.template[1] : bench.template[1][i] = " "
            out == bench.output[1]
        IN IF blank
           THEN out = DefaultSessionTemplate(bench.title, bench.summary)
           ELSE NoLooseBrace(bench.template[1]) =>
                   out = Substitute(bench.template[1], values)

(***************************************************************************)
(* C26: a date that does not parse as YYYY-MM-DD is no fatal error of      *)
(* export_day: when the vault check, the directory creation, the           *)
(* summarizer, the session listing and the daily-note write succeed, the   *)
(* call returns an outcome with the daily note written, no month-index,    *)
(* week-index, weekly-report or overview path, and exactly three artifact  *)
(* warnings (month index, week-summary data, overview), in that order,     *)
(* after the session warnings.                                             *)
(***************************************************************************)
C26_InvalidDateNotFatal ==
    \A p \in Procs :
        LET r == run[p]
            d == date[p]
            calendar == d[2] \in 1..12 /\ d[3] \in 1..DaysInMonth(d[1], d[2])
            daily == DailyNotePath(Root(p), d)
            failed_sessions == SelectIdx(Len(r.processed),
                                         {i \in DOMAIN r.processed :
                                             r.processed[i].written # "ok"})
        IN ~calendar =>
              \* once the daily note is written the call runs to its outcome
              /\ r.pc \in {"idle", "dirs", "summary", "list", "sessions", "daily", "month",
                           "week", "overview", "done", "failed"}
              /\ Failed(p) => Calls(r, "export_month_index") = {}
              /\ (Calls(r, "export_month_index") # {} /\ Alone(p)) => fs[daily] # <<>>
              /\ Done(p) =>
                    /\ r.outcome # None
                    /\ r.outcome[1].daily_note_path = daily
                    /\ r.outcome[1].session_paths = r.session_paths
                    /\ r.outcome[1].index_note_path = None
                    /\ r.outcome[1].week_index_path = None
                    /\ r.outcome[1].weekly_note_path = None
                    /\ r.outcome[1].overview_path = None
                    /\ r.outcome[1].warnings
                           = [k \in 1..Len(failed_sessions) |->
                                 Warning("session", r.processed[failed_sessions[k]].session_id)]
                             \o <<Warning("month_index", 0), Warning("week_summary", 0),
                                  Warning("overview", 0)>>
                    /\ WrittenKinds(r) \subseteq {DailyNotePath(Root(p), d).kind,
                                                  "Sessions/<date>/<start>_<hm>-<hm>_session-<id>.md",
                                                  "Assets/<date>/session-<id>-<index>.jpg"}

\* an export for "2024-02-30" ended with an outcome: its session failed to be
\* written, so the warnings are that of the session and the three of the artifacts
C26_Witness ==
    \E p \in Procs :
        /\ date[p] = DBad
        /\ Done(p)
        /\ run[p].outcome # None
        /\ Len(run[p].outcome[1].warnings) = 4
        /\ run[p].outcome[1].warnings[1].kind = "session"
        /\ run[p].outcome[1].overview_path = None

\* ... and one without sessions: the three artifact warnings alone
C26_WitnessPlain ==
    \E p \in Procs :
        /\ date[p] = DBad
        /\ Done(p)
        /\ run[p].sessions = <<>>
        /\ run[p].outcome[1].warnings
               = <<Warning("month_index", 0), Warning("week_summary", 0),
                   Warning("overview", 0)>>

=============================================================================
